---- MODULE Spec2Model ----
(***************************************************************************)
(* A model of the storage access layer of rice-node-sdk:                   *)
(*   - RiceDBClient, the orchestrating client (transport selection,        *)
(*     fallback, run-scope injection)         specification Spec           *)
(*   - BaseRiceDBClient.fastIngest, the bulk ingestion engine              *)
(*                                            specification SpecIngest     *)
(*   - GrpcClient / HttpClient, the two transports                         *)
(*                                            specification SpecTransport  *)
(*   - BitVector, construction and Hamming distance                        *)
(*                                            specification SpecBitVector  *)
(*   - batchGrant / insertWithAcl of the transports                        *)
(*                                            specification SpecAcl        *)
(*   - insert, search, delete of the two transports side by side           *)
(*                                            specification SpecEquiv      *)
(*   - the permission operations of GrpcClient                             *)
(*                                            specification SpecPermission *)
(*   - fastIngest with more failures than messages are kept                *)
(*                                            specification SpecIngestMany *)
(*   - the arrays behind a BitVector          specification SpecArrays     *)
(*   - fastIngest under fair scheduling, batchSize 0 included              *)
(*                                            specification SpecIngestLive *)
(*   - RiceDBClient with every group of operations and the gRPC channels   *)
(*     it opens                               specification SpecLifecycle  *)
(* JavaScript runs the code on one thread: a handler runs without          *)
(* interruption from one await to the next, so every action below is one   *)
(* such synchronous section.                                               *)
(***************************************************************************)
EXTENDS Integers, Sequences, FiniteSets, TLC

VARIABLES
  \* ---- RiceDBClient (src/src/storage/client/RiceDBClient.ts) ----
  transport,     \* this.transport: "grpc" | "http" | "auto"
  client,        \* this.client: NULL or the kind of transport instance held
  connected,     \* this.connected
  runId,         \* this.runId: Undefined or a string
  connPc,        \* where a pending connect() is suspended
  fellBack,      \* the pending/last connect() entered its catch block
  connResult,    \* how the last connect() settled, as its caller sees it
  httpOut,       \* what HttpClient.connect gave the last connect(), if awaited
  lastCall,      \* the last call RiceDBClient made on a transport instance
  nCalls,        \* calls made on a transport since the last connect() settled
  lastResult,    \* what the last data operation gave its caller
  \* ---- one call of BaseRiceDBClient.fastIngest ----
  fiPc,          \* "chunking", "running", "resolved", "rejected" or
                 \* "aborted" (the process ran out of memory)
  documents,     \* the documents argument
  batchSize,     \* the batchSize argument
  concurrency,   \* the concurrency argument
  chunkI,        \* i of the chunking loop
  chunks,        \* const chunks
  queue,         \* const queue
  wpc,           \* per worker: "await", "settled", "loop", "done", "threw"
  wchunk,        \* per worker: the chunk of its current processChunk
  wres,          \* per worker: how its batchInsert call settled
  totalInserted, \* let totalInserted
  failedBatches, \* let failedBatches
  errors,        \* const errors
  failures,      \* the message of every error processChunk caught, in order
  passed,        \* per document: times batchInsert was called with it
  inflight,      \* batchInsert calls made and not yet settled
  nOk,           \* batchInsert calls that resolved
  nRejected,     \* batchInsert calls that rejected
  sumCounts,     \* sum of the counts of the calls that resolved
  \* ---- a GrpcClient and an HttpClient used directly ----
  gChan,         \* GrpcClient.client: NULL or "open" (the ProtoClient)
  gConnected,    \* GrpcClient.connected
  gPc,           \* "idle", or "awaitHealth" while GrpcClient.connect waits
  rpcCalls,      \* calls made on the ProtoClient (network I/O)
  hConnected,    \* HttpClient.connected
  hPc,           \* "idle", or "awaitHealth" while HttpClient.connect waits
  httpRequests,  \* requests made on the axios instance (network I/O)
  subGen,        \* the generator a subscribe() call returned
  watchGen,      \* the generator a watchMemory() call returned
  tResult,       \* what the last transport operation gave its caller
  tError,        \* the error object it threw, if it threw one
  granted,       \* the permissions the remote service holds
  \* ---- BitVectors a caller constructs and compares ----
  bvA,           \* the vector a, once one was constructed
  bvB,           \* the vector b, once one was constructed
  bvNew,         \* the last construction: its argument and how it ended
  bvDist,        \* a.hammingDistance(b), once computed for the present a, b
  bvDistRev,     \* b.hammingDistance(a), likewise
  bvC,           \* the vector c: a with one bit inverted, once constructed
  bvDistC,       \* c.hammingDistance(b), once computed
  \* ---- one call of batchGrant or insertWithAcl on a transport ----
  aclOn,         \* the transport the call is made on: "grpc" or "http"
  aclOpen,       \* a GrpcClient: this.client is set (it was connected)
  aclOp,         \* the method called: "batchGrant" or "insertWithAcl"
  aclArg,        \* the userId of each entry of grants or userPermissions
  aclPc,         \* where the call is: "called", "awaitInsert", "loop",
                 \* "awaitGrant", "returned" or "rejected"
  insertCalls,   \* the owner passed to each insert call made
  insertRes,     \* const insertRes
  grants,        \* the grants batchGrant works on
  bgI,           \* i of the loop of batchGrant
  grantCalls,    \* the userId of each grantPermission call made
  bgResults,     \* const results
  bgErrors,      \* const errors
  grantRes,      \* what batchGrant returned
  aclRes,        \* what insertWithAcl returned
  aclErr,        \* the error the call rejected with
  \* ---- the same call made on a GrpcClient and on an HttpClient ----
  eqOp,          \* the operation called on both: "insert", "search", "delete"
  eqAnswer,      \* what the remote service answers to it
  eqGrpc,        \* how the call on the GrpcClient settled
  eqHttp,        \* how the call on the HttpClient settled
  eqCalls,       \* calls compared so far
  \* ---- the arrays behind one BitVector and its caller's lists ----
  heap,          \* the arrays allocated, each a list of chunks
  argRef,        \* the array the caller passed to the constructor, if any
  vecRef,        \* the array this.chunks of the vector refers to
  listRef,       \* the array toList() returned to the caller
  vecMade,       \* the chunks of the vector when its constructor returned
  writes,        \* changes the caller made to arrays it holds
  selfDist,      \* v.hammingDistance(v), once called
  \* ---- the gRPC channels a RiceDBClient opened ----
  channels       \* ProtoClients created for the client and not closed

clientVars == <<transport, client, connected, runId, connPc, fellBack,
                connResult, httpOut, lastCall, nCalls, lastResult>>

ingestVars == <<fiPc, documents, batchSize, concurrency, chunkI, chunks, queue,
                wpc, wchunk, wres, totalInserted, failedBatches, errors,
                passed, inflight, nOk, nRejected, sumCounts, failures>>

transportVars == <<gChan, gConnected, gPc, rpcCalls, hConnected, hPc,
                   httpRequests, subGen, watchGen, tResult, tError,
                   granted>>

bitVars == <<bvA, bvB, bvNew, bvDist, bvDistRev, bvC, bvDistC>>

aclVars == <<aclOn, aclOpen, aclOp, aclArg, aclPc, insertCalls, insertRes,
             grants, bgI, grantCalls, bgResults, bgErrors, grantRes, aclRes,
             aclErr>>

equivVars == <<eqOp, eqAnswer, eqGrpc, eqHttp, eqCalls>>

arrayVars == <<heap, argRef, vecRef, listRef, vecMade, writes, selfDist>>

vars == <<clientVars, ingestVars, transportVars, bitVars, aclVars, equivVars,
          arrayVars, channels>>

\* What each specification leaves alone.
exceptClient == <<ingestVars, transportVars, bitVars, aclVars, equivVars,
  arrayVars, channels>>
exceptIngest == <<clientVars, transportVars, bitVars, aclVars, equivVars,
  arrayVars, channels>>
exceptTransport == <<clientVars, ingestVars, bitVars, aclVars, equivVars,
  arrayVars, channels>>
exceptBitVector ==
  <<clientVars, ingestVars, transportVars, aclVars, equivVars, arrayVars,
    channels>>
exceptArrays ==
  <<clientVars, ingestVars, transportVars, bitVars, aclVars, equivVars,
    channels>>
exceptLifecycle ==
  <<ingestVars, transportVars, bitVars, aclVars, equivVars, arrayVars>>
exceptAcl == <<clientVars, ingestVars, transportVars, bitVars, equivVars,
  arrayVars, channels>>
exceptEquiv == <<clientVars, ingestVars, transportVars, bitVars, aclVars,
  arrayVars, channels>>

-----------------------------------------------------------------------------
\* Bounds of the model.
MaxCalls == 2
MaxDocs == 4
MaxBatchSize == 2
MaxConcurrency == 2
MaxRequests == 2
MaxGrants == 3
MaxResults == 2
MaxWrites == 2
MaxChannels == 2
MaxChunks == 12

-----------------------------------------------------------------------------
\* JavaScript values.
NULL == "<null>"
Undefined == "<undefined>"

\* The strings a run scope is drawn from; the empty string is a string.
RunIds == {"", "run-a", "run-b"}
OptRunIds == RunIds \cup {Undefined}

\* ToBoolean of a string-or-undefined value.
Truthy(v) == v # Undefined /\ v # NULL /\ v # ""

\* a || b
JsOr(a, b) == IF Truthy(a) THEN a ELSE b

Transports == {"grpc", "http", "auto"}

\* The users, nodes and permission types of the model.
Users == {"u1", "u2"}
Nodes == {"n1", "n2"}
PermissionTypes == {"read", "write"}

NotConnectedMsg == "Not connected"
RunIdRequiredMsg == "runId is required for deleteRun"
GrpcConnectError == "grpc connect error"
HttpConnectError == "http connect error"

NoCall == [to |-> NULL, op |-> "none", arg |-> Undefined, dflt |-> Undefined,
           runId |-> Undefined]
NoResult == [op |-> "none", kind |-> "none", msg |-> ""]
NoError == [name |-> "none", message |-> ""]

-----------------------------------------------------------------------------
\* RiceDBClient

\* constructor: client = null, connected = false, transport and runId as given.
ClientInit ==
  /\ transport \in Transports
  /\ runId \in OptRunIds
  /\ client = NULL
  /\ connected = FALSE
  /\ connPc = "idle"
  /\ fellBack = FALSE
  /\ connResult = "none"
  /\ httpOut = "none"
  /\ lastCall = NoCall
  /\ nCalls = 0
  /\ lastResult = NoResult

\* setRunId(runId: string)
SetRunId(r) ==
  /\ runId' = r
  /\ UNCHANGED <<transport, client, connected, connPc, fellBack, connResult,
                 httpOut, lastCall, nCalls, lastResult>>

\* connect(), up to its first await. One connect() is pending at a time.
Connect ==
  /\ connPc = "idle"
  /\ fellBack' = FALSE
  /\ connResult' = "pending"
  /\ httpOut' = "none"
  /\ IF transport = "grpc"
       THEN client' = "grpc" /\ connPc' = "awaitGrpc"
       ELSE IF transport = "http"
         THEN client' = "http" /\ connPc' = "awaitHttp"
         ELSE client' = client /\ connPc' = "awaitGrpc"
  /\ UNCHANGED <<transport, connected, runId, lastCall, nCalls, lastResult>>

\* Faulty variant: the catch block keeps the gRPC client whose connect failed.
FallbackClient_KeepsGrpc == "grpc"

\* The transport the catch block of the automatic branch installs.
FallbackClient == "http"

\* Faulty variant: the forced branch catches the failure as well.
InTryBlock_Always == TRUE

\* `await grpcClient.connect()` stands in a try block in the automatic branch
\* only.
InTryBlock == transport = "auto"

\* connect() resumes after `await grpcClient.connect()` (ok: it resolved).
GrpcConnectSettles(ok) ==
  /\ connPc = "awaitGrpc"
  /\ IF ok
       THEN /\ client' = IF transport = "auto" THEN "grpc" ELSE client
            /\ connected' = TRUE
            /\ connPc' = "idle"
            /\ connResult' = "resolved"
            /\ nCalls' = 0
            /\ UNCHANGED fellBack
       ELSE IF InTryBlock
         THEN /\ client' = FallbackClient
              /\ connPc' = "awaitHttp"
              /\ fellBack' = TRUE
              /\ UNCHANGED <<connected, connResult, nCalls>>
         ELSE /\ connPc' = "idle"
              /\ connResult' = GrpcConnectError
              /\ nCalls' = 0
              /\ UNCHANGED <<client, connected, fellBack>>
  /\ UNCHANGED <<transport, runId, httpOut, lastCall, lastResult>>

\* connect() resumes after `await this.client.connect()` on an HttpClient,
\* whose connect resolves true (status 200), resolves false (another status)
\* or rejects (no response).
HttpConnectSettles(out) ==
  /\ connPc = "awaitHttp"
  /\ connPc' = "idle"
  /\ nCalls' = 0
  /\ httpOut' = out
  /\ IF out = "reject"
       THEN connResult' = HttpConnectError /\ UNCHANGED connected
       ELSE connResult' = "resolved" /\ connected' = TRUE
  /\ UNCHANGED <<transport, client, runId, fellBack, lastCall, lastResult>>

\* disconnect()
Disconnect ==
  /\ client' = NULL
  /\ connected' = FALSE
  /\ UNCHANGED <<transport, runId, connPc, fellBack, connResult, httpOut,
                 lastCall, nCalls, lastResult>>

\* Faulty variant: this.runId || runId
EffectiveRunId_DefaultFirst(arg) == JsOr(runId, arg)

\* runId || this.runId
EffectiveRunId(arg) == JsOr(arg, runId)

\* A call on this.client: what it is made on and with which run scope.
Delegate(op, arg, scope) ==
  /\ lastCall' = [to |-> client, op |-> op, arg |-> arg, dflt |-> runId,
                  runId |-> scope]
  /\ nCalls' = nCalls + 1
  /\ lastResult' = [op |-> op, kind |-> "delegated", msg |-> ""]

\* checkConnected() threw, or another error raised before any delegation.
Throw(op, msg) ==
  /\ lastResult' = [op |-> op, kind |-> "throw", msg |-> msg]
  /\ UNCHANGED <<lastCall, nCalls>>

\* insert(nodeId, text, metadata, userId, sessionId, embedding, runId?)
Insert(arg) ==
  /\ nCalls < MaxCalls
  /\ IF client = NULL
       THEN Throw("insert", NotConnectedMsg)
       ELSE Delegate("insert", arg, EffectiveRunId(arg))
  /\ UNCHANGED <<transport, client, connected, runId, connPc, fellBack,
                 connResult, httpOut>>

\* search(query, userId, k, sessionId, filter, queryEmbedding, runId?)
Search(arg) ==
  /\ nCalls < MaxCalls
  /\ IF client = NULL
       THEN Throw("search", NotConnectedMsg)
       ELSE Delegate("search", arg, EffectiveRunId(arg))
  /\ UNCHANGED <<transport, client, connected, runId, connPc, fellBack,
                 connResult, httpOut>>

\* delete(nodeId, sessionId?)
Delete ==
  /\ nCalls < MaxCalls
  /\ IF client = NULL
       THEN Throw("delete", NotConnectedMsg)
       ELSE Delegate("delete", Undefined, Undefined)
  /\ UNCHANGED <<transport, client, connected, runId, connPc, fellBack,
                 connResult, httpOut>>

\* The data operations that pass their arguments on as they are, one of each
\* group: sessions, memory, graph, batches, permissions.
ForwardedOps ==
  {"createSession", "writeMemory", "addEdge", "batchInsert", "grantPermission"}

\* createSession, writeMemory, addEdge, batchInsert, grantPermission, ...:
\* this.checkConnected(); return this.client!.op(...)
Forward(op) ==
  /\ nCalls < MaxCalls
  /\ IF client = NULL
       THEN Throw(op, NotConnectedMsg)
       ELSE Delegate(op, Undefined, Undefined)
  /\ UNCHANGED <<transport, client, connected, runId, connPc, fellBack,
                 connResult, httpOut>>

\* Faulty variant: the check for a missing run scope is left out.
MissingRunId_Unchecked(target) == FALSE

\* if (!targetRunId) in deleteRun
MissingRunId(target) == ~Truthy(target)

\* deleteRun(runId?)
DeleteRun(arg) ==
  /\ nCalls < MaxCalls
  /\ IF client = NULL
       THEN Throw("deleteRun", NotConnectedMsg)
       ELSE IF MissingRunId(EffectiveRunId(arg))
         THEN Throw("deleteRun", RunIdRequiredMsg)
         ELSE Delegate("deleteRun", arg, EffectiveRunId(arg))
  /\ UNCHANGED <<transport, client, connected, runId, connPc, fellBack,
                 connResult, httpOut>>

\* The life of a RiceDBClient with the gRPC channels it opens.  GrpcClient
\* .connect creates a ProtoClient before its first await, in the synchronous
\* section of the connect() that called it; GrpcClient.disconnect closes it.
\* An HttpClient holds no connection of its own.

\* No ProtoClient was created.
NoChannel == channels = 0

\* connect() with the ProtoClient it has GrpcClient.connect create
ConnectOpens ==
  /\ channels < MaxChannels
  /\ Connect
  /\ channels' = IF transport = "http" THEN channels ELSE channels + 1

\* The channels after the catch block of the automatic branch or after a
\* rejection in forced mode: nothing calls disconnect() on the GrpcClient
\* whose connect failed.
AfterFailedGrpc == channels

\* connect() resumes after `await grpcClient.connect()`
GrpcSettlesWithChannel(ok) ==
  /\ GrpcConnectSettles(ok)
  /\ channels' = IF ok THEN channels ELSE AfterFailedGrpc

\* connect() resumes after the connect of an HttpClient
HttpSettlesWithChannel(out) ==
  /\ HttpConnectSettles(out)
  /\ UNCHANGED channels

\* disconnect(): this.client.disconnect() closes the ProtoClient of a
\* GrpcClient held in this.client
DisconnectCloses ==
  /\ Disconnect
  /\ channels' = IF client = "grpc" THEN channels - 1 ELSE channels

-----------------------------------------------------------------------------
\* BaseRiceDBClient.fastIngest

Min(a, b) == IF a < b THEN a ELSE b

\* Faulty variant: the end index is taken into the slice.
Slice_EndInclusive(docs, from, to) ==
  SubSeq(docs, from + 1, IF to + 1 < Len(docs) THEN to + 1 ELSE Len(docs))

\* documents.slice(from, to), 0-based and end-exclusive, for 0 <= from <= to
Slice(docs, from, to) == SubSeq(docs, from + 1, Min(to, Len(docs)))

\* the 10 of `if (errors.length < 10)`
ErrorCap == 10

NoOutcome == [ok |-> FALSE, count |-> 0, msg |-> 0]

\* What a batchInsert call on a chunk can settle with: it resolves with a
\* count, or rejects with an error (named here after the chunk's first
\* document).
Outcomes(chunk) ==
  [ok : {TRUE}, count : 0..Len(chunk), msg : {0}]
    \cup [ok : {FALSE}, count : {0}, msg : {Head(chunk)}]

\* The locals of fastIngest and the record of its batchInsert calls, at the
\* call.
IngestLocals ==
  /\ fiPc = "chunking"
  /\ chunkI = 0
  /\ chunks = <<>>
  /\ queue = <<>>
  /\ wpc = <<>>
  /\ wchunk = <<>>
  /\ wres = <<>>
  /\ totalInserted = 0
  /\ failedBatches = 0
  /\ errors = <<>>
  /\ passed = [d \in 1..Len(documents) |-> 0]
  /\ inflight = 0
  /\ nOk = 0
  /\ nRejected = 0
  /\ sumCounts = 0
  /\ failures = <<>>

\* The state at the call fastIngest(documents, batchSize, concurrency), for
\* distinct documents, a batchSize of at least 1 and a concurrency that is a
\* count (0 included).
IngestInit ==
  /\ \E n \in 0..MaxDocs : documents = [d \in 1..n |-> d]
  /\ batchSize \in 1..MaxBatchSize
  /\ concurrency \in 0..MaxConcurrency
  /\ IngestLocals

\* The same with a batchSize of 0 among the arguments.
AnyBatchSizeInit ==
  /\ \E n \in 0..MaxDocs : documents = [d \in 1..n |-> d]
  /\ batchSize \in 0..MaxBatchSize
  /\ concurrency \in 0..MaxConcurrency
  /\ IngestLocals

\* A call with more chunks than error messages are kept: one document per
\* chunk, one worker.
ManyChunksInit ==
  /\ documents = [d \in 1..(ErrorCap + 1) |-> d]
  /\ batchSize = 1
  /\ concurrency = 1
  /\ IngestLocals

\* No fastIngest call is modelled.
IngestIdle ==
  /\ documents = <<>>
  /\ batchSize = 1
  /\ concurrency = 0
  /\ fiPc = "resolved"
  /\ chunkI = 0
  /\ chunks = <<>>
  /\ queue = <<>>
  /\ wpc = <<>>
  /\ wchunk = <<>>
  /\ wres = <<>>
  /\ totalInserted = 0
  /\ failedBatches = 0
  /\ errors = <<>>
  /\ passed = <<>>
  /\ inflight = 0
  /\ nOk = 0
  /\ nRejected = 0
  /\ sumCounts = 0
  /\ failures = <<>>

\* One iteration of the chunking loop.
ChunkStep ==
  /\ fiPc = "chunking"
  /\ chunkI < Len(documents)
  /\ Len(chunks) < MaxChunks
  /\ chunks' = Append(chunks, Slice(documents, chunkI, chunkI + batchSize))
  /\ chunkI' = chunkI + batchSize
  /\ UNCHANGED <<fiPc, documents, batchSize, concurrency, queue, wpc, wchunk,
                 wres, totalInserted, failedBatches, errors, passed, inflight,
                 nOk, nRejected, sumCounts, failures>>

\* The chunking loop goes on although the list of chunks has reached the size
\* the memory holds: the push fails and the process ends; fastIngest neither
\* resolves nor rejects.
OutOfMemory ==
  /\ fiPc = "chunking"
  /\ chunkI < Len(documents)
  /\ Len(chunks) >= MaxChunks
  /\ fiPc' = "aborted"
  /\ UNCHANGED <<documents, batchSize, concurrency, chunkI, chunks, queue,
                 wpc, wchunk, wres, totalInserted, failedBatches, errors,
                 passed, inflight, nOk, nRejected, sumCounts, failures>>

\* Faulty variant: the chunk is read from the queue and left in it.
Dequeue_Peek(q) == [chunk |-> Head(q), rest |-> q]

\* queue.shift() on a non-empty queue
Dequeue(q) == [chunk |-> Head(q), rest |-> Tail(q)]

\* Faulty variant: one worker per chunk, whatever the concurrency.
NumWorkers_PerChunk == Len(chunks)

\* Math.min(concurrency, chunks.length)
NumWorkers == Min(concurrency, Len(chunks))

\* The queue after the first k workers each ran to their first await.
RECURSIVE QueueAfter(_, _)
QueueAfter(q, k) ==
  IF k = 0 \/ q = <<>> THEN q ELSE QueueAfter(Dequeue(q).rest, k - 1)

\* The documents of a chunk are passed to batchInsert once more.
PassChunk(p, chunk) ==
  [d \in DOMAIN p |->
     IF \E x \in 1..Len(chunk) : chunk[x] = d THEN p[d] + 1 ELSE p[d]]

RECURSIVE PassChunks(_, _)
PassChunks(p, cs) ==
  IF cs = <<>> THEN p ELSE PassChunks(PassChunk(p, Head(cs)), Tail(cs))

\* The chunking loop ends; the queue is copied and the workers are created.
\* Each worker runs, in turn and without interruption, to its first await:
\* it finds the queue non-empty, shifts a chunk and calls batchInsert.
StartWorkers ==
  /\ fiPc = "chunking"
  /\ chunkI >= Len(documents)
  /\ fiPc' = "running"
  /\ LET n == NumWorkers
         taken == [w \in 1..n |-> Dequeue(QueueAfter(chunks, w - 1)).chunk]
     IN /\ queue' = QueueAfter(chunks, n)
        /\ wpc' = [w \in 1..n |-> "await"]
        /\ wchunk' = taken
        /\ wres' = [w \in 1..n |-> NoOutcome]
        /\ passed' = PassChunks(passed, taken)
        /\ inflight' = n
  /\ UNCHANGED <<documents, batchSize, concurrency, chunkI, chunks,
                 totalInserted, failedBatches, errors, nOk, nRejected,
                 sumCounts, failures>>

\* The batchInsert call of worker w settles.
Settle(w, out) ==
  /\ fiPc = "running"
  /\ w \in DOMAIN wpc
  /\ wpc[w] = "await"
  /\ out \in Outcomes(wchunk[w])
  /\ wpc' = [wpc EXCEPT ![w] = "settled"]
  /\ wres' = [wres EXCEPT ![w] = out]
  /\ inflight' = inflight - 1
  /\ nOk' = IF out.ok THEN nOk + 1 ELSE nOk
  /\ sumCounts' = IF out.ok THEN sumCounts + out.count ELSE sumCounts
  /\ nRejected' = IF out.ok THEN nRejected ELSE nRejected + 1
  /\ UNCHANGED <<fiPc, documents, batchSize, concurrency, chunkI, chunks,
                 queue, wchunk, totalInserted, failedBatches, errors, passed,
                 failures>>

\* Faulty variant: totalInserted = result.count
AddCount_Overwrite(total, count) == count

\* totalInserted += result.count
AddCount(total, count) == total + count

\* Faulty variant: processChunk without its try/catch.
AfterProcessChunk_NoCatch(ok) == IF ok THEN "loop" ELSE "threw"

\* How processChunk ends for the worker: it returns in both branches of its
\* try/catch, so the worker goes back to its loop.
AfterProcessChunk(ok) == "loop"

\* Faulty variant: if (errors.length <= 10)
BelowCap_Inclusive(errs) == Len(errs) <= ErrorCap

\* if (errors.length < 10)
BelowCap(errs) == Len(errs) < ErrorCap

\* processChunk resumes after `await this.batchInsert(chunk, userId)`.
Resume(w) ==
  /\ fiPc = "running"
  /\ w \in DOMAIN wpc
  /\ wpc[w] = "settled"
  /\ IF wres[w].ok
       THEN /\ totalInserted' = AddCount(totalInserted, wres[w].count)
            /\ UNCHANGED <<failedBatches, errors, failures>>
       ELSE /\ failedBatches' = failedBatches + 1
            /\ errors' = IF BelowCap(errors)
                           THEN Append(errors, wres[w].msg) ELSE errors
            /\ failures' = Append(failures, wres[w].msg)
            /\ UNCHANGED totalInserted
  /\ wpc' = [wpc EXCEPT ![w] = AfterProcessChunk(wres[w].ok)]
  /\ UNCHANGED <<fiPc, documents, batchSize, concurrency, chunkI, chunks,
                 queue, wchunk, wres, passed, inflight, nOk, nRejected,
                 sumCounts>>

\* The worker's loop: while (queue.length > 0) { shift; processChunk }.
\* A chunk is an array, hence truthy: `if (chunk)` always passes. The test,
\* the shift and the batchInsert call are one synchronous section.
WorkerLoop(w) ==
  /\ fiPc = "running"
  /\ w \in DOMAIN wpc
  /\ wpc[w] = "loop"
  /\ IF Len(queue) > 0
       THEN /\ queue' = Dequeue(queue).rest
            /\ wchunk' = [wchunk EXCEPT ![w] = Dequeue(queue).chunk]
            /\ wpc' = [wpc EXCEPT ![w] = "await"]
            /\ passed' = PassChunk(passed, Dequeue(queue).chunk)
            /\ inflight' = inflight + 1
       ELSE /\ wpc' = [wpc EXCEPT ![w] = "done"]
            /\ UNCHANGED <<queue, wchunk, passed, inflight>>
  /\ UNCHANGED <<fiPc, documents, batchSize, concurrency, chunkI, chunks,
                 wres, totalInserted, failedBatches, errors, nOk, nRejected,
                 sumCounts, failures>>

\* await Promise.all(workers) ends: all workers returned, or one threw.
Return ==
  /\ fiPc = "running"
  /\ \/ \A w \in DOMAIN wpc : wpc[w] = "done"
     \/ \E w \in DOMAIN wpc : wpc[w] = "threw"
  /\ fiPc' = IF \E w \in DOMAIN wpc : wpc[w] = "threw"
               THEN "rejected" ELSE "resolved"
  /\ UNCHANGED <<documents, batchSize, concurrency, chunkI, chunks, queue,
                 wpc, wchunk, wres, totalInserted, failedBatches, errors,
                 passed, inflight, nOk, nRejected, sumCounts, failures>>

-----------------------------------------------------------------------------
\* GrpcClient and HttpClient

GetUserUnsupportedMsg ==
  "Get user is not supported via gRPC transport. Use HTTP."
ListUsersUnsupportedMsg ==
  "List users is not supported via gRPC transport. Use HTTP."
SampleGraphUnsupportedMsg ==
  "Sample graph is not supported via gRPC transport. Use HTTP."
SubscribeUnsupportedMsg ==
  "Subscribe is not supported via HTTP transport. Use gRPC."
WatchMemoryUnsupportedMsg ==
  "Watch memory is not supported via HTTP transport. Use gRPC."
InsertFailedMsg == "Insert failed"

\* The statuses the remote service answers a request with.
Statuses == {200, 399, 400, 500}

\* `Request failed with status ${res.status}: ${JSON.stringify(res.data)}`
\* for the statuses of the model that make request throw
RequestFailedMsg(status) ==
  IF status = 400 THEN "Request failed with status 400: {}"
  ELSE "Request failed with status 500: {}"

\* Both constructors: no ProtoClient yet, connected = false, no request made.
TransportInit ==
  /\ gChan = NULL
  /\ gConnected = FALSE
  /\ gPc = "idle"
  /\ rpcCalls = 0
  /\ hConnected = FALSE
  /\ hPc = "idle"
  /\ httpRequests = 0
  /\ subGen = "none"
  /\ watchGen = "none"
  /\ tResult = NoResult
  /\ tError = NoError
  /\ granted = {}

\* new Error(message): the object is of class Error, its name is "Error".
NewError(message) == [name |-> "Error", message |-> message]

\* An error object made by grpc-js or axios, which connect() passes on as it
\* is (`throw e`).
LibraryError(message) == [name |-> "<library>", message |-> message]

\* The error object behind a message thrown by a transport.
Thrown(msg) ==
  IF msg \in {GrpcConnectError, HttpConnectError} THEN LibraryError(msg)
  ELSE NewError(msg)

Returned(op, kind, msg) ==
  /\ tResult' = [op |-> op, kind |-> kind, msg |-> msg]
  /\ tError' = IF kind = "throw" THEN Thrown(msg) ELSE NoError

\* GrpcClient.connect, to `await this.health()`: the ProtoClient is created
\* and health() makes its call on it.
GrpcConnect ==
  /\ gPc = "idle"
  /\ rpcCalls < MaxRequests
  /\ gChan' = "open"
  /\ rpcCalls' = rpcCalls + 1
  /\ gPc' = "awaitHealth"
  /\ UNCHANGED <<gConnected, tResult, tError, hConnected, hPc, httpRequests,
                 subGen, watchGen, granted>>

\* GrpcClient.connect resumes: health() resolved (ok) or rejected.
GrpcHealthSettles(ok) ==
  /\ gPc = "awaitHealth"
  /\ gPc' = "idle"
  /\ gConnected' = ok
  /\ IF ok THEN Returned("grpc.connect", "resolve", "true")
           ELSE Returned("grpc.connect", "throw", GrpcConnectError)
  /\ UNCHANGED <<gChan, rpcCalls, hConnected, hPc, httpRequests, subGen,
                 watchGen, granted>>

\* GrpcClient.disconnect
GrpcDisconnect ==
  /\ gChan' = NULL
  /\ gConnected' = FALSE
  /\ UNCHANGED <<gPc, rpcCalls, tResult, tError, hConnected, hPc, httpRequests,
                 subGen, watchGen, granted>>

\* GrpcClient.insert: `if (!this.client) throw`, then one call on the
\* ProtoClient, whose answer is the result.
GrpcInsert ==
  /\ rpcCalls < MaxRequests
  /\ IF gChan = NULL
       THEN Returned("grpc.insert", "throw", NotConnectedMsg)
            /\ UNCHANGED rpcCalls
       ELSE Returned("grpc.insert", "rpc", "")
            /\ rpcCalls' = rpcCalls + 1
  /\ UNCHANGED <<gChan, gConnected, gPc, hConnected, hPc, httpRequests,
                 subGen, watchGen, granted>>

\* Faulty variant: the unsupported operations first check the connection, as the
\* supported ones do.
GrpcUnsupported_ChecksConnection(msg) ==
  [kind |-> "throw", msg |-> IF gChan = NULL THEN NotConnectedMsg ELSE msg,
   io |-> 0]

\* The body of getUser, listUsers and sampleGraph: a single throw.
GrpcUnsupported(msg) == [kind |-> "throw", msg |-> msg, io |-> 0]

GrpcUnsupportedOp(op, msg) ==
  /\ Returned(op, GrpcUnsupported(msg).kind, GrpcUnsupported(msg).msg)
  /\ rpcCalls' = rpcCalls + GrpcUnsupported(msg).io
  /\ UNCHANGED <<gChan, gConnected, gPc, hConnected, hPc, httpRequests,
                 subGen, watchGen, granted>>

\* GrpcClient.getUser
GrpcGetUser == GrpcUnsupportedOp("grpc.getUser", GetUserUnsupportedMsg)

\* GrpcClient.listUsers
GrpcListUsers == GrpcUnsupportedOp("grpc.listUsers", ListUsersUnsupportedMsg)

\* GrpcClient.sampleGraph
GrpcSampleGraph ==
  GrpcUnsupportedOp("grpc.sampleGraph", SampleGraphUnsupportedMsg)

\* GrpcClient.grantPermission(nodeId, userId, permissions): `if (!this.client)
\* throw`, then one call on the ProtoClient, which the remote service carries
\* out or refuses.
GrpcGrantPermission(node, user, perms, done) ==
  /\ rpcCalls < MaxRequests
  /\ IF gChan = NULL
       THEN /\ Returned("grpc.grantPermission", "throw", NotConnectedMsg)
            /\ UNCHANGED <<rpcCalls, granted>>
       ELSE /\ Returned("grpc.grantPermission", "rpc", "")
            /\ rpcCalls' = rpcCalls + 1
            /\ granted' = IF done
                            THEN granted \cup {<<node, user, p>> : p \in perms}
                            ELSE granted
  /\ UNCHANGED <<gChan, gConnected, gPc, hConnected, hPc, httpRequests,
                 subGen, watchGen>>

\* GrpcClient.revokePermission(nodeId, userId)
GrpcRevokePermission(node, user, done) ==
  /\ rpcCalls < MaxRequests
  /\ IF gChan = NULL
       THEN /\ Returned("grpc.revokePermission", "throw", NotConnectedMsg)
            /\ UNCHANGED <<rpcCalls, granted>>
       ELSE /\ Returned("grpc.revokePermission", "rpc", "")
            /\ rpcCalls' = rpcCalls + 1
            /\ granted' =
                 IF done
                   THEN {g \in granted : <<g[1], g[2]>> # <<node, user>>}
                   ELSE granted
  /\ UNCHANGED <<gChan, gConnected, gPc, hConnected, hPc, httpRequests,
                 subGen, watchGen>>

\* Faulty variant: checkPermission asks the remote service.
CheckPermissionBody_AsksRemote(node, user, permissionType) ==
  [kind |-> "resolve",
   msg |-> IF <<node, user, permissionType>> \in granted THEN "true"
           ELSE "false",
   io |-> 1]

\* The body of GrpcClient.checkPermission: console.warn(...); return false
CheckPermissionBody(node, user, permissionType) ==
  [kind |-> "resolve", msg |-> "false", io |-> 0]

\* GrpcClient.checkPermission(nodeId, userId, permissionType)
GrpcCheckPermission(node, user, permissionType) ==
  /\ Returned("grpc.checkPermission",
              CheckPermissionBody(node, user, permissionType).kind,
              CheckPermissionBody(node, user, permissionType).msg)
  /\ rpcCalls' = rpcCalls + CheckPermissionBody(node, user, permissionType).io
  /\ UNCHANGED <<gChan, gConnected, gPc, hConnected, hPc, httpRequests,
                 subGen, watchGen, granted>>

\* HttpClient.connect, to `await this.client.get("/health")`.
HttpConnect ==
  /\ hPc = "idle"
  /\ httpRequests < MaxRequests
  /\ httpRequests' = httpRequests + 1
  /\ hPc' = "awaitHealth"
  /\ UNCHANGED <<gChan, gConnected, gPc, rpcCalls, tResult, tError, hConnected,
                 subGen, watchGen, granted>>

\* HttpClient.connect resumes: the probe was answered with status 200
\* ("true"), with another status ("false"), or not at all ("reject").
HttpHealthSettles(out) ==
  /\ hPc = "awaitHealth"
  /\ hPc' = "idle"
  /\ hConnected' = (out = "true")
  /\ IF out = "reject"
       THEN Returned("http.connect", "throw", HttpConnectError)
       ELSE Returned("http.connect", "resolve", out)
  /\ UNCHANGED <<gChan, gConnected, gPc, rpcCalls, httpRequests, subGen,
                 watchGen, granted>>

\* HttpClient.disconnect
HttpDisconnect ==
  /\ hConnected' = FALSE
  /\ UNCHANGED <<gChan, gConnected, gPc, rpcCalls, tResult, tError, hPc,
                 httpRequests, subGen, watchGen, granted>>

\* HttpClient.insert: one request, whatever the connection state.
HttpInsert ==
  /\ httpRequests < MaxRequests
  /\ httpRequests' = httpRequests + 1
  /\ Returned("http.insert", "request", "")
  /\ UNCHANGED <<gChan, gConnected, gPc, rpcCalls, hConnected, hPc, subGen,
                 watchGen, granted>>

\* HttpClient.request, once the axios call resolved (validateStatus lets
\* every status through): throws on a status of 400 or more, else gives the
\* body.
RequestOutcome(status) ==
  IF status >= 400 THEN [kind |-> "throw", msg |-> RequestFailedMsg(status)]
  ELSE [kind |-> "resolve", msg |-> ""]

\* HttpClient.insert resumes after `await this.request(...)`: the error of
\* request leaves insert as it is; a body whose success field is false makes
\* insert throw `res.message || "Insert failed"`.
HttpInsertSettles(status, success, message) ==
  /\ tResult = [op |-> "http.insert", kind |-> "request", msg |-> ""]
  /\ IF RequestOutcome(status).kind = "throw"
       THEN Returned("http.insert", "throw", RequestOutcome(status).msg)
       ELSE IF ~success
         THEN Returned("http.insert", "throw", JsOr(message, InsertFailedMsg))
         ELSE Returned("http.insert", "resolve", "InsertResult")
  /\ UNCHANGED <<gChan, gConnected, gPc, rpcCalls, hConnected, hPc,
                 httpRequests, subGen, watchGen, granted>>

\* Calling an `async *` method runs none of its body: the call returns a
\* generator suspended at its start.
HttpSubscribe ==
  /\ subGen' = "suspendedStart"
  /\ Returned("http.subscribe", "return", "AsyncGenerator")
  /\ UNCHANGED <<gChan, gConnected, gPc, rpcCalls, hConnected, hPc,
                 httpRequests, watchGen, granted>>

HttpWatchMemory ==
  /\ watchGen' = "suspendedStart"
  /\ Returned("http.watchMemory", "return", "AsyncGenerator")
  /\ UNCHANGED <<gChan, gConnected, gPc, rpcCalls, hConnected, hPc,
                 httpRequests, subGen, granted>>

\* Faulty variant: the body asks the server before it gives up.
HttpStreamBody_AsksServer(msg) == [kind |-> "throw", msg |-> msg, io |-> 1]

\* The body of HttpClient.subscribe and HttpClient.watchMemory: a throw.
HttpStreamBody(msg) == [kind |-> "throw", msg |-> msg, io |-> 0]

\* next() on the generator of subscribe(): from its start the body runs, and
\* its throw rejects next() and completes the generator; on a completed
\* generator next() resolves { done: true }.
HttpSubscribeNext ==
  /\ subGen # "none"
  /\ subGen' = "completed"
  /\ IF subGen = "suspendedStart"
       THEN /\ Returned("http.subscribe.next",
                        HttpStreamBody(SubscribeUnsupportedMsg).kind,
                        HttpStreamBody(SubscribeUnsupportedMsg).msg)
            /\ httpRequests' =
                 httpRequests + HttpStreamBody(SubscribeUnsupportedMsg).io
       ELSE /\ Returned("http.subscribe.next", "resolve", "done")
            /\ UNCHANGED httpRequests
  /\ UNCHANGED <<gChan, gConnected, gPc, rpcCalls, hConnected, hPc, watchGen,
                 granted>>

HttpWatchMemoryNext ==
  /\ watchGen # "none"
  /\ watchGen' = "completed"
  /\ IF watchGen = "suspendedStart"
       THEN /\ Returned("http.watchMemory.next",
                        HttpStreamBody(WatchMemoryUnsupportedMsg).kind,
                        HttpStreamBody(WatchMemoryUnsupportedMsg).msg)
            /\ httpRequests' =
                 httpRequests + HttpStreamBody(WatchMemoryUnsupportedMsg).io
       ELSE /\ Returned("http.watchMemory.next", "resolve", "done")
            /\ UNCHANGED httpRequests
  /\ UNCHANGED <<gChan, gConnected, gPc, rpcCalls, hConnected, hPc, subGen,
                 granted>>

\* No transport is used directly.
TransportIdle == TransportInit

-----------------------------------------------------------------------------
\* BitVector (src/src/storage/utils/BitVector.ts)
\*
\* A 32-bit half of a Long is the pair <<upper, lower>> of its two 16-bit
\* halves, each in 0 .. 65535: the bit pattern of the signed 32-bit integer
\* that Long keeps in low and high.  A half is negative as a signed integer
\* when its upper part is at least 32768.  All arithmetic below is modulo
\* 2^32, which is what JavaScript's bit operators (ToInt32, ToUint32) make of
\* the numbers popCount32 computes; none of its intermediate values reaches
\* 2^53, so no precision is lost before the reduction.

\* BitVector.ADDRESS_SIZE_U64
ADDRESS_SIZE_U64 == 16

ChunkCountMsg == "BitVector must have 16 chunks"

RECURSIVE AndBits(_, _, _)
\* a & b on the k lowest bits, bit by bit
AndBits(a, b, k) ==
  IF k = 0 THEN 0
  ELSE (a % 2) * (b % 2) + 2 * AndBits(a \div 2, b \div 2, k - 1)

RECURSIVE XorBits(_, _, _)
\* a ^ b on the k lowest bits, bit by bit
XorBits(a, b, k) ==
  IF k = 0 THEN 0
  ELSE ((a + b) % 2) + 2 * XorBits(a \div 2, b \div 2, k - 1)

\* & and ^ of two bytes, tabulated once
And8 == [a \in 0 .. 255 |-> [b \in 0 .. 255 |-> AndBits(a, b, 8)]]
Xor8 == [a \in 0 .. 255 |-> [b \in 0 .. 255 |-> XorBits(a, b, 8)]]

\* & and ^ of two 16-bit values, byte by byte
And16(a, b) == And8[a \div 256][b \div 256] * 256 + And8[a % 256][b % 256]
Xor16(a, b) == Xor8[a \div 256][b \div 256] * 256 + Xor8[a % 256][b % 256]

\* x & y
And32(x, y) == <<And16(x[1], y[1]), And16(x[2], y[2])>>

\* x ^ y
Xor32(x, y) == <<Xor16(x[1], y[1]), Xor16(x[2], y[2])>>

\* x >>> k, for 0 < k < 32
Ushr32(x, k) ==
  IF k >= 16
    THEN <<0, x[1] \div (2 ^ (k - 16))>>
    ELSE <<x[1] \div (2 ^ k),
           (x[2] \div (2 ^ k)) + (x[1] % (2 ^ k)) * (2 ^ (16 - k))>>

\* x << k modulo 2^32, for 0 < k < 32
Shl32(x, k) ==
  IF k >= 16
    THEN <<(x[2] * (2 ^ (k - 16))) % 65536, 0>>
    ELSE <<(x[1] * (2 ^ k) + x[2] \div (2 ^ (16 - k))) % 65536,
           (x[2] * (2 ^ k)) % 65536>>

\* x + y modulo 2^32
Add32(x, y) ==
  LET lower == x[2] + y[2]
  IN  <<(x[1] + y[1] + lower \div 65536) % 65536, lower % 65536>>

\* x - y modulo 2^32
Sub32(x, y) ==
  LET lower == x[2] - y[2]
      borrow == IF lower < 0 THEN 1 ELSE 0
  IN  <<(x[1] - y[1] - borrow + 131072) % 65536, (lower + 65536) % 65536>>

\* x * 0x1010101 modulo 2^32
Times01010101(x) ==
  Add32(Add32(x, Shl32(x, 8)), Add32(Shl32(x, 16), Shl32(x, 24)))

Mask55555555 == <<21845, 21845>>
Mask33333333 == <<13107, 13107>>
Mask0f0f0f0f == <<3855, 3855>>

\* Faulty variant: the mask 0xf0f0f0f is left out of the last line.
PopCount32_NoByteMask(n) ==
  LET n1 == Sub32(n, And32(Ushr32(n, 1), Mask55555555))
      n2 == Add32(And32(n1, Mask33333333),
                  And32(Ushr32(n1, 2), Mask33333333))
      n3 == Add32(n2, Ushr32(n2, 4))
  IN  Ushr32(Times01010101(n3), 24)[2]

\* popCount32(n)
PopCount32(n) ==
  LET n1 == Sub32(n, And32(Ushr32(n, 1), Mask55555555))
      n2 == Add32(And32(n1, Mask33333333),
                  And32(Ushr32(n1, 2), Mask33333333))
      n3 == And32(Add32(n2, Ushr32(n2, 4)), Mask0f0f0f0f)
  IN  Ushr32(Times01010101(n3), 24)[2]

\* A Long: its low and high 32 bits.
ZeroWord == <<0, 0>>
MkLong(low, high) == [low |-> low, high |-> high]

\* Long.UZERO
UZERO == MkLong(ZeroWord, ZeroWord)

\* Long.fromValue(c) of a Long: a new Long of the same low and high bits
FromValue(c) == MkLong(c.low, c.high)

\* Faulty variant: the high bits of the result are those of the receiver.
LongXor_KeepsHigh(a, b) == MkLong(Xor32(a.low, b.low), a.high)

\* a.xor(b)
LongXor(a, b) == MkLong(Xor32(a.low, b.low), Xor32(a.high, b.high))

\* Faulty variant: the chunks are combined with or.
ChunkDiff_Or(a, b) ==
  MkLong(Add32(And32(a.low, b.low), Xor32(a.low, b.low)),
         Add32(And32(a.high, b.high), Xor32(a.high, b.high)))

\* const xor = this.chunks[i].xor(other.chunks[i])
ChunkDiff(a, b) == LongXor(a, b)

\* Faulty variant: only the low bits are counted.
ChunkCount_LowOnly(xor) == PopCount32(xor.low)

\* popCount32(xor.getLowBits()) + popCount32(xor.getHighBits())
ChunkCount(xor) == PopCount32(xor.low) + PopCount32(xor.high)

\* Faulty variant: the loop leaves out the last chunk.
LoopEnd_OneShort == ADDRESS_SIZE_U64 - 1

\* i < BitVector.ADDRESS_SIZE_U64
LoopEnd == ADDRESS_SIZE_U64

RECURSIVE HammingLoop(_, _, _, _)
\* the for loop of hammingDistance, from index i (0-based) on
HammingLoop(this, other, i, distance) ==
  IF i < LoopEnd
    THEN HammingLoop(this, other, i + 1,
                     distance + ChunkCount(ChunkDiff(this[i + 1], other[i + 1])))
    ELSE distance

\* this.hammingDistance(other), on the chunk lists of the two vectors
HammingDistance(this, other) == HammingLoop(this, other, 0, 0)

\* The constructor's argument: not given, or a list of Longs.
NoChunksArg == [given |-> FALSE, list |-> <<>>]
ChunksArg(list) == [given |-> TRUE, list |-> list]

\* Faulty variant: an empty list counts as no argument.
HasChunks_NonEmpty(arg) == arg.given /\ Len(arg.list) > 0

\* if (chunks): an array, also an empty one, is truthy
HasChunks(arg) == arg.given

\* new BitVector(chunks): the chunks of the new vector, or the error thrown
Constructor(arg) ==
  IF HasChunks(arg)
    THEN IF Len(arg.list) # ADDRESS_SIZE_U64
      THEN [ok |-> FALSE, chunks |-> <<>>, msg |-> ChunkCountMsg]
      ELSE [ok |-> TRUE,
            chunks |-> [i \in 1 .. Len(arg.list) |-> FromValue(arg.list[i])],
            msg |-> ""]
    ELSE [ok |-> TRUE, chunks |-> [i \in 1 .. ADDRESS_SIZE_U64 |-> UZERO],
          msg |-> ""]

\* Vectors the model constructs and compares.
ZeroVec == [i \in 1 .. ADDRESS_SIZE_U64 |-> UZERO]
OneVec == [ZeroVec EXCEPT ![3] = MkLong(<<0, 1>>, ZeroWord)]
AllOnesVec ==
  [i \in 1 .. ADDRESS_SIZE_U64 |-> MkLong(<<65535, 65535>>, <<65535, 65535>>)]
MixedVec ==
  [i \in 1 .. ADDRESS_SIZE_U64 |->
     MkLong(<<(i * 40503) % 65536, (i * 9973 + 7) % 65536>>,
            <<65535 - ((i * 2749) % 32768), (i * i * 251) % 65536>>)]
SampleVectors == {ZeroVec, OneVec, AllOnesVec, MixedVec}

\* Lists a caller passes to the constructor, of 0, 1, 15, 16 and 17 chunks.
InputLists ==
  SampleVectors \cup
    {<<>>, <<UZERO>>, SubSeq(AllOnesVec, 1, ADDRESS_SIZE_U64 - 1),
     Append(MixedVec, UZERO)}

NoVector == [exists |-> FALSE, chunks |-> <<>>]
NoConstruction == [slot |-> "none", how |-> "none", argLen |-> 0,
                   ok |-> FALSE, msg |-> ""]
NoDistance == -1

BitVectorInit ==
  /\ bvA = NoVector
  /\ bvB = NoVector
  /\ bvNew = NoConstruction
  /\ bvDist = NoDistance
  /\ bvDistRev = NoDistance
  /\ bvC = NoVector
  /\ bvDistC = NoDistance

\* slot = new BitVector(...) for the caller's a or b: the assignment happens
\* unless the constructor throws.  What was derived from the former a and b
\* is dropped.
Construct(slot, how, arg) ==
  LET r == Constructor(arg)
      made == [exists |-> TRUE, chunks |-> r.chunks]
  IN  /\ bvNew' = [slot |-> slot, how |-> how, argLen |-> Len(arg.list),
                   ok |-> r.ok, msg |-> r.msg]
      /\ bvA' = IF r.ok /\ slot = "a" THEN made ELSE bvA
      /\ bvB' = IF r.ok /\ slot = "b" THEN made ELSE bvB
      /\ bvDist' = NoDistance
      /\ bvDistRev' = NoDistance
      /\ bvC' = NoVector
      /\ bvDistC' = NoDistance

\* new BitVector()
NewDefault(slot) == Construct(slot, "default", NoChunksArg)

\* new BitVector(list)
NewFromList(slot, list) == Construct(slot, "list", ChunksArg(list))

\* BitVector.random(): sixteen Longs of drawn low and high bits, passed to the
\* constructor
Random(slot) ==
  \E v \in SampleVectors : Construct(slot, "random", ChunksArg(v))

\* One bit of a 32-bit half inverted.
FlipInWord(w, k) ==
  IF k >= 16
    THEN <<IF (w[1] \div (2 ^ (k - 16))) % 2 = 1
             THEN w[1] - 2 ^ (k - 16) ELSE w[1] + 2 ^ (k - 16), w[2]>>
    ELSE <<w[1], IF (w[2] \div (2 ^ k)) % 2 = 1
                   THEN w[2] - 2 ^ k ELSE w[2] + 2 ^ k>>

\* Bit p (0 .. 1023) of a chunk list inverted: bit p % 64 of chunk p \div 64.
FlipInList(list, p) ==
  LET c == list[p \div 64 + 1]
      k == p % 64
  IN  [list EXCEPT ![p \div 64 + 1] =
         IF k < 32 THEN MkLong(FlipInWord(c.low, k), c.high)
                   ELSE MkLong(c.low, FlipInWord(c.high, k - 32))]

\* The bit positions the model inverts: every bit of the first and of the
\* last chunk, and the lowest and highest bit of both halves of every chunk.
FlipPositions ==
  {p \in 0 .. (64 * ADDRESS_SIZE_U64 - 1) :
     p \div 64 \in {0, ADDRESS_SIZE_U64 - 1} \/ p % 32 \in {0, 31}}

\* c = new BitVector(the chunks of a with bit p inverted), once the distance
\* from a to b is known; c is made once for a given a and b
FlipBit(p) ==
  /\ bvA.exists /\ bvB.exists
  /\ bvDist # NoDistance
  /\ ~bvC.exists
  /\ \E r \in {Constructor(ChunksArg(FlipInList(bvA.chunks, p)))} :
       /\ bvNew' = [slot |-> "c", how |-> "list", argLen |-> ADDRESS_SIZE_U64,
                    ok |-> r.ok, msg |-> r.msg]
       /\ bvC' = IF r.ok THEN [exists |-> TRUE, chunks |-> r.chunks] ELSE bvC
  /\ UNCHANGED <<bvA, bvB, bvDist, bvDistRev, bvDistC>>

\* a.hammingDistance(b) and b.hammingDistance(a)
Distances ==
  /\ bvA.exists /\ bvB.exists
  /\ bvDist = NoDistance
  /\ bvDist' = HammingDistance(bvA.chunks, bvB.chunks)
  /\ bvDistRev' = HammingDistance(bvB.chunks, bvA.chunks)
  /\ UNCHANGED <<bvA, bvB, bvNew, bvC, bvDistC>>

\* c.hammingDistance(b)
DistanceFlipped ==
  /\ bvC.exists /\ bvB.exists
  /\ bvDistC = NoDistance
  /\ bvDistC' = HammingDistance(bvC.chunks, bvB.chunks)
  /\ UNCHANGED <<bvA, bvB, bvNew, bvC, bvDist, bvDistRev>>

\* No BitVector is in use.
BitVectorIdle == BitVectorInit

-----------------------------------------------------------------------------
\* The arrays of a BitVector (BitVector.ts 7-18 and 32-34).  An array is an
\* object: the constructor argument, the array this.chunks refers to and the
\* value toList() returns are references into the heap, and the caller may
\* change any array it holds a reference to.

NoRef == "none"
NotCalledYet == [called |-> FALSE, threw |-> FALSE, value |-> 0]

ArraysInit ==
  /\ heap = [arg |-> <<>>, chunks |-> <<>>]
  /\ argRef = NoRef
  /\ vecRef = NoRef
  /\ listRef = NoRef
  /\ vecMade = <<>>
  /\ writes = 0
  /\ selfDist = NotCalledYet

\* v = new BitVector(list): chunks.map(...) makes a new array for this.chunks.
NewVectorFromList(list) ==
  /\ vecRef = NoRef
  /\ \E r \in {Constructor(ChunksArg(list))} :
       /\ r.ok
       /\ heap' = [arg |-> list, chunks |-> r.chunks]
       /\ argRef' = "arg"
       /\ vecRef' = "chunks"
       /\ vecMade' = r.chunks
  /\ UNCHANGED <<listRef, writes, selfDist>>

\* v = new BitVector(): new Array(16).fill(Long.UZERO)
NewVectorDefault ==
  /\ vecRef = NoRef
  /\ heap' = [heap EXCEPT !.chunks = Constructor(NoChunksArg).chunks]
  /\ vecRef' = "chunks"
  /\ vecMade' = Constructor(NoChunksArg).chunks
  /\ UNCHANGED <<argRef, listRef, writes, selfDist>>

\* What toList() returns: this.chunks, the array itself.
ToListResult == vecRef

\* list = v.toList()
ToList ==
  /\ vecRef # NoRef
  /\ listRef' = ToListResult
  /\ UNCHANGED <<heap, argRef, vecRef, vecMade, writes, selfDist>>

\* The arrays the caller holds: its constructor argument and what toList()
\* gave it.
CallerRefs == {argRef, listRef} \ {NoRef}

\* The indexes and values the caller writes.
WriteIndexes == {0, ADDRESS_SIZE_U64 - 1}
WriteValues == {UZERO, MkLong(<<0, 1>>, ZeroWord)}

\* array[i] = v, by the caller
SetElement(ref, i, v) ==
  /\ writes < MaxWrites
  /\ i < Len(heap[ref])
  /\ heap' = [heap EXCEPT ![ref][i + 1] = v]
  /\ writes' = writes + 1
  /\ UNCHANGED <<argRef, vecRef, listRef, vecMade, selfDist>>

\* array.push(v), by the caller
Push(ref, v) ==
  /\ writes < MaxWrites
  /\ heap' = [heap EXCEPT ![ref] = Append(@, v)]
  /\ writes' = writes + 1
  /\ UNCHANGED <<argRef, vecRef, listRef, vecMade, selfDist>>

\* array.pop(), by the caller
Pop(ref) ==
  /\ writes < MaxWrites
  /\ Len(heap[ref]) > 0
  /\ heap' = [heap EXCEPT ![ref] = SubSeq(@, 1, Len(@) - 1)]
  /\ writes' = writes + 1
  /\ UNCHANGED <<argRef, vecRef, listRef, vecMade, selfDist>>

\* v.hammingDistance(v): reads chunks 0 .. 15 of both; a missing chunk is
\* undefined and `undefined.xor` throws a TypeError.
DistanceToSelf ==
  /\ vecRef # NoRef
  /\ selfDist = NotCalledYet
  /\ selfDist' =
       IF Len(heap[vecRef]) < ADDRESS_SIZE_U64
         THEN [called |-> TRUE, threw |-> TRUE, value |-> 0]
         ELSE [called |-> TRUE, threw |-> FALSE,
               value |-> HammingDistance(heap[vecRef], heap[vecRef])]
  /\ UNCHANGED <<heap, argRef, vecRef, listRef, vecMade, writes>>

\* No array is in use.
ArraysIdle == ArraysInit

-----------------------------------------------------------------------------
\* batchGrant and insertWithAcl (GrpcClient.ts and HttpClient.ts; the two
\* methods read the same in both transports and differ in the insert and
\* grantPermission they call)

InsertWithAclEmptyMsg == "At least one user permission must be provided"
RemoteErrorMsg == "remote error"

RECURSIVE SeqsUpTo(_, _)
\* the sequences over S of length at most n
SeqsUpTo(S, n) ==
  IF n = 0 THEN {<<>>}
  ELSE LET shorter == SeqsUpTo(S, n - 1)
       IN  shorter \cup {Append(q, x) : q \in shorter, x \in S}

\* What the remote service, or the way to it, makes of one request: an answer
\* with its success field and message, or an error (a gRPC error, an HTTP
\* status of 400 or more, a failure of the network).
Answer(success, message) ==
  [kind |-> "answer", success |-> success, message |-> message]
RemoteError == [kind |-> "error", success |-> FALSE, message |-> RemoteErrorMsg]
Answers == {Answer(s, m) : s \in BOOLEAN, m \in {"", "m"}} \cup {RemoteError}

\* How a call of a transport method settles for its caller.
Resolves(value) == [kind |-> "resolve", value |-> value, msg |-> ""]
Rejects(msg) == [kind |-> "reject", value |-> FALSE, msg |-> msg]

\* HttpClient.insert, once the request settled: the value is the success
\* field of the InsertResult returned
HttpInsertOutcome(ans) ==
  IF ans.kind = "error"
    THEN Rejects(ans.message)
    ELSE IF ~ans.success
      THEN Rejects(JsOr(ans.message, InsertFailedMsg))
      ELSE Resolves(ans.success)

\* GrpcClient.insert, once the call settled: return res as InsertResult
GrpcInsertOutcome(ans) ==
  IF ans.kind = "error" THEN Rejects(ans.message) ELSE Resolves(ans.success)

\* HttpClient.grantPermission: await this.request(...); return true
HttpGrantOutcome(ans) ==
  IF ans.kind = "error" THEN Rejects(ans.message) ELSE Resolves(TRUE)

\* GrpcClient.grantPermission: return res.success
GrpcGrantOutcome(ans) ==
  IF ans.kind = "error" THEN Rejects(ans.message) ELSE Resolves(ans.success)

\* insert(...) on the transport the call is made on; a GrpcClient without
\* ProtoClient throws before any request
InsertOutcome(ans) ==
  IF aclOn = "http" THEN HttpInsertOutcome(ans)
  ELSE IF ~aclOpen THEN Rejects(NotConnectedMsg)
  ELSE GrpcInsertOutcome(ans)

\* grantPermission(...) on the transport the call is made on
GrantOutcome(ans) ==
  IF aclOn = "http" THEN HttpGrantOutcome(ans)
  ELSE IF ~aclOpen THEN Rejects(NotConnectedMsg)
  ELSE GrpcGrantOutcome(ans)

NoBatchResult == [done |-> FALSE, total |-> 0, successful |-> 0, failed |-> 0]
NoInsertResult == [done |-> FALSE, success |-> FALSE]
NoAclResult == [done |-> FALSE, success |-> FALSE, aclGrants |-> FALSE,
                aclUsers |-> <<>>]

\* A call of batchGrant(grants) or insertWithAcl(nodeId, text, metadata,
\* userPermissions) is made; the list holds the userId of each entry.
AclInit ==
  /\ aclOn \in {"grpc", "http"}
  /\ aclOpen \in BOOLEAN
  /\ aclOn = "http" => aclOpen
  /\ aclOp \in {"batchGrant", "insertWithAcl"}
  /\ aclArg \in SeqsUpTo(Users, MaxGrants)
  /\ aclPc = "called"
  /\ insertCalls = <<>>
  /\ insertRes = NoInsertResult
  /\ grants = <<>>
  /\ bgI = 0
  /\ grantCalls = <<>>
  /\ bgResults = <<>>
  /\ bgErrors = <<>>
  /\ grantRes = NoBatchResult
  /\ aclRes = NoAclResult
  /\ aclErr = ""

\* batchGrant(grants), up to the first test of its loop
BatchGrantStart ==
  /\ aclOp = "batchGrant"
  /\ aclPc = "called"
  /\ grants' = aclArg
  /\ aclPc' = "loop"
  /\ UNCHANGED <<aclOn, aclOpen, aclOp, aclArg, insertCalls, insertRes, bgI,
                 grantCalls, bgResults, bgErrors, grantRes, aclRes, aclErr>>

\* One turn of the loop, up to `await this.grantPermission(...)`.
GrantCall ==
  /\ aclPc = "loop"
  /\ bgI < Len(grants)
  /\ grantCalls' = Append(grantCalls, grants[bgI + 1])
  /\ aclPc' = "awaitGrant"
  /\ UNCHANGED <<aclOn, aclOpen, aclOp, aclArg, insertCalls, insertRes, grants,
                 bgI, bgResults, bgErrors, grantRes, aclRes, aclErr>>

\* Faulty variant: the catch block ends the loop.
AfterCatch_Break == Len(grants)

\* i after the catch block: the loop goes on with i++
AfterCatch == bgI + 1

\* The awaited grantPermission settles: results.push in the try block, or
\* errors.push in the catch block; then i++.
GrantSettles(ans) ==
  /\ aclPc = "awaitGrant"
  /\ LET out == GrantOutcome(ans)
     IN  IF out.kind = "resolve"
           THEN /\ bgResults' = Append(bgResults, [index |-> bgI,
                                               userId |-> grants[bgI + 1],
                                               success |-> TRUE,
                                               result |-> out.value])
                /\ bgI' = bgI + 1
                /\ UNCHANGED bgErrors
           ELSE /\ bgErrors' = Append(bgErrors, [index |-> bgI,
                                                 userId |-> grants[bgI + 1],
                                                 error |-> out.msg])
                /\ bgI' = AfterCatch
                /\ UNCHANGED bgResults
  /\ aclPc' = "loop"
  /\ UNCHANGED <<aclOn, aclOpen, aclOp, aclArg, insertCalls, insertRes, grants,
                 grantCalls, grantRes, aclRes, aclErr>>

\* The loop is over: batchGrant returns its summary.  Called by insertWithAcl,
\* the summary becomes insertRes.aclGrants and insertWithAcl returns.
BatchGrantReturn ==
  /\ aclPc = "loop"
  /\ bgI >= Len(grants)
  /\ grantRes' = [done |-> TRUE, total |-> Len(grants),
                  successful |-> Len(bgResults), failed |-> Len(bgErrors)]
  /\ aclPc' = "returned"
  /\ aclRes' = IF aclOp = "insertWithAcl"
                 THEN [done |-> TRUE, success |-> insertRes.success,
                       aclGrants |-> TRUE, aclUsers |-> aclArg]
                 ELSE aclRes
  /\ UNCHANGED <<aclOn, aclOpen, aclOp, aclArg, insertCalls, insertRes, grants,
                 bgI, grantCalls, bgResults, bgErrors, aclErr>>

\* insertWithAcl(...), up to `await this.insert(...)`
InsertWithAclStart ==
  /\ aclOp = "insertWithAcl"
  /\ aclPc = "called"
  /\ IF Len(aclArg) = 0
       THEN /\ aclPc' = "rejected"
            /\ aclErr' = InsertWithAclEmptyMsg
            /\ UNCHANGED insertCalls
       ELSE /\ insertCalls' = Append(insertCalls, aclArg[1])
            /\ aclPc' = "awaitInsert"
            /\ UNCHANGED aclErr
  /\ UNCHANGED <<aclOn, aclOpen, aclOp, aclArg, insertRes, grants, bgI,
                 grantCalls, bgResults, bgErrors, grantRes, aclRes>>

\* The awaited insert settles.  A rejection leaves insertWithAcl; otherwise the
\* grants for userPermissions.slice(1) are built and, if there are any,
\* batchGrant is called with them.
InsertSettles(ans) ==
  /\ aclPc = "awaitInsert"
  /\ LET out == InsertOutcome(ans)
     IN  IF out.kind = "reject"
           THEN /\ aclPc' = "rejected"
                /\ aclErr' = out.msg
                /\ UNCHANGED <<insertRes, grants, aclRes>>
           ELSE /\ insertRes' = [done |-> TRUE, success |-> out.value]
                /\ UNCHANGED aclErr
                /\ IF Len(Tail(aclArg)) > 0
                     THEN /\ grants' = Tail(aclArg)
                          /\ aclPc' = "loop"
                          /\ UNCHANGED aclRes
                     ELSE /\ aclPc' = "returned"
                          /\ aclRes' = [done |-> TRUE, success |-> out.value,
                                        aclGrants |-> FALSE,
                                        aclUsers |-> aclArg]
                          /\ UNCHANGED grants
  /\ UNCHANGED <<aclOn, aclOpen, aclOp, aclArg, insertCalls, bgI, grantCalls,
                 bgResults, bgErrors, grantRes>>

\* No batchGrant and no insertWithAcl is under way.
AclIdle ==
  /\ aclOn = "grpc"
  /\ aclOpen = FALSE
  /\ aclOp = "batchGrant"
  /\ aclArg = <<>>
  /\ aclPc = "idle"
  /\ insertCalls = <<>>
  /\ insertRes = NoInsertResult
  /\ grants = <<>>
  /\ bgI = 0
  /\ grantCalls = <<>>
  /\ bgResults = <<>>
  /\ bgErrors = <<>>
  /\ grantRes = NoBatchResult
  /\ aclRes = NoAclResult
  /\ aclErr = ""

-----------------------------------------------------------------------------
\* insert, search and delete of the two transports, given the same answer of
\* the remote service (GrpcClient.ts 122-178, HttpClient.ts 110-179).  Both
\* clients are connected.

\* The node ids a search answer lists.
SearchAnswer(ids) ==
  [kind |-> "answer", success |-> TRUE, message |-> "", results |-> ids]
WithResults(ans) ==
  [kind |-> ans.kind, success |-> ans.success, message |-> ans.message,
   results |-> <<>>]

\* The answers the remote service may give to each operation.
AnswersTo(op) ==
  IF op = "search"
    THEN {SearchAnswer(ids) : ids \in SeqsUpTo({1, 2}, MaxResults)}
           \cup {WithResults(RemoteError)}
    ELSE {WithResults(ans) : ans \in Answers}

\* GrpcClient.search: res.results.map(...)
GrpcSearchOutcome(ans) ==
  IF ans.kind = "error" THEN Rejects(ans.message) ELSE Resolves(ans.results)

\* HttpClient.search: (res.results || []).map(...)
HttpSearchOutcome(ans) ==
  IF ans.kind = "error" THEN Rejects(ans.message) ELSE Resolves(ans.results)

\* GrpcClient.delete: return res.success
GrpcDeleteOutcome(ans) ==
  IF ans.kind = "error" THEN Rejects(ans.message) ELSE Resolves(ans.success)

\* HttpClient.delete: await this.request(...); return true
HttpDeleteOutcome(ans) ==
  IF ans.kind = "error" THEN Rejects(ans.message) ELSE Resolves(TRUE)

GrpcOutcome(op, ans) ==
  IF op = "insert" THEN GrpcInsertOutcome(ans)
  ELSE IF op = "search" THEN GrpcSearchOutcome(ans)
  ELSE GrpcDeleteOutcome(ans)

HttpOutcome(op, ans) ==
  IF op = "insert" THEN HttpInsertOutcome(ans)
  ELSE IF op = "search" THEN HttpSearchOutcome(ans)
  ELSE HttpDeleteOutcome(ans)

NotCalled == [kind |-> "none", value |-> FALSE, msg |-> ""]
Pending == [kind |-> "pending", value |-> FALSE, msg |-> ""]

EquivInit ==
  /\ eqOp = "none"
  /\ eqAnswer = WithResults(RemoteError)
  /\ eqGrpc = NotCalled
  /\ eqHttp = NotCalled
  /\ eqCalls = 0

\* The same operation is called on both clients; the remote service will give
\* both the same answer.
CallBoth(op, ans) ==
  /\ eqCalls < MaxCalls
  /\ eqGrpc.kind # "pending" /\ eqHttp.kind # "pending"
  /\ eqOp' = op
  /\ eqAnswer' = ans
  /\ eqGrpc' = Pending
  /\ eqHttp' = Pending
  /\ eqCalls' = eqCalls + 1

\* The call on the GrpcClient settles.
GrpcCallSettles ==
  /\ eqGrpc.kind = "pending"
  /\ eqGrpc' = GrpcOutcome(eqOp, eqAnswer)
  /\ UNCHANGED <<eqOp, eqAnswer, eqHttp, eqCalls>>

\* The call on the HttpClient settles.
HttpCallSettles ==
  /\ eqHttp.kind = "pending"
  /\ eqHttp' = HttpOutcome(eqOp, eqAnswer)
  /\ UNCHANGED <<eqOp, eqAnswer, eqGrpc, eqCalls>>

\* No call is being compared.
EquivIdle == EquivInit

-----------------------------------------------------------------------------
\* Specifications.

\* The client held fixed while fastIngest is examined.
ClientIdle ==
  /\ transport = "auto"
  /\ runId = Undefined
  /\ client = NULL
  /\ connected = FALSE
  /\ connPc = "idle"
  /\ fellBack = FALSE
  /\ connResult = "none"
  /\ httpOut = "none"
  /\ lastCall = NoCall
  /\ nCalls = 0
  /\ lastResult = NoResult

Init ==
  /\ ClientInit /\ IngestIdle /\ TransportIdle /\ BitVectorIdle /\ AclIdle
  /\ EquivIdle /\ ArraysIdle /\ NoChannel

Next ==
  \/ \E r \in RunIds : SetRunId(r) /\ UNCHANGED exceptClient
  \/ Connect /\ UNCHANGED exceptClient
  \/ \E ok \in BOOLEAN : GrpcConnectSettles(ok) /\ UNCHANGED exceptClient
  \/ \E out \in {"true", "false", "reject"} :
       HttpConnectSettles(out) /\ UNCHANGED exceptClient
  \/ Disconnect /\ UNCHANGED exceptClient
  \/ \E a \in OptRunIds : Insert(a) /\ UNCHANGED exceptClient
  \/ \E a \in OptRunIds : Search(a) /\ UNCHANGED exceptClient
  \/ Delete /\ UNCHANGED exceptClient
  \/ \E a \in OptRunIds : DeleteRun(a) /\ UNCHANGED exceptClient

Spec == Init /\ [][Next]_vars

\* RiceDBClient with operations of every group and the channels it opens; the
\* run scope is left at one value.
InitLifecycle ==
  /\ Init
  /\ runId \in {Undefined, "run-a"}

NextLifecycle ==
  \/ ConnectOpens /\ UNCHANGED exceptLifecycle
  \/ \E ok \in BOOLEAN :
       GrpcSettlesWithChannel(ok) /\ UNCHANGED exceptLifecycle
  \/ \E out \in {"true", "false", "reject"} :
       HttpSettlesWithChannel(out) /\ UNCHANGED exceptLifecycle
  \/ DisconnectCloses /\ UNCHANGED exceptLifecycle
  \/ Insert(Undefined) /\ UNCHANGED <<exceptLifecycle, channels>>
  \/ Search(Undefined) /\ UNCHANGED <<exceptLifecycle, channels>>
  \/ Delete /\ UNCHANGED <<exceptLifecycle, channels>>
  \/ DeleteRun(Undefined) /\ UNCHANGED <<exceptLifecycle, channels>>
  \/ \E op \in ForwardedOps :
       Forward(op) /\ UNCHANGED <<exceptLifecycle, channels>>

SpecLifecycle == InitLifecycle /\ [][NextLifecycle]_vars

InitIngest ==
  /\ ClientIdle /\ IngestInit /\ TransportIdle /\ BitVectorIdle /\ AclIdle
  /\ EquivIdle /\ ArraysIdle /\ NoChannel

NextIngest ==
  \/ ChunkStep /\ UNCHANGED exceptIngest
  \/ StartWorkers /\ UNCHANGED exceptIngest
  \/ \E w \in DOMAIN wpc : \E out \in Outcomes(wchunk[w]) :
       Settle(w, out) /\ UNCHANGED exceptIngest
  \/ \E w \in DOMAIN wpc : Resume(w) /\ UNCHANGED exceptIngest
  \/ \E w \in DOMAIN wpc : WorkerLoop(w) /\ UNCHANGED exceptIngest
  \/ Return /\ UNCHANGED exceptIngest

SpecIngest == InitIngest /\ [][NextIngest]_vars

\* fastIngest, its calls with many chunks included.
InitIngestMany ==
  /\ ClientIdle /\ TransportIdle /\ BitVectorIdle /\ AclIdle /\ EquivIdle
  /\ ArraysIdle /\ NoChannel
  /\ (IngestInit \/ ManyChunksInit)

SpecIngestMany == InitIngestMany /\ [][NextIngest]_vars

\* fastIngest for every batchSize from 0 on, every batchInsert call settling
\* and every continuation that is ready being run.
InitIngestLive ==
  /\ ClientIdle /\ TransportIdle /\ BitVectorIdle /\ AclIdle /\ EquivIdle
  /\ ArraysIdle /\ NoChannel
  /\ AnyBatchSizeInit

NextIngestLive ==
  \/ NextIngest
  \/ OutOfMemory /\ UNCHANGED exceptIngest

SpecIngestLive ==
  InitIngestLive /\ [][NextIngestLive]_vars /\ WF_vars(NextIngestLive)

InitTransport ==
  /\ ClientIdle /\ IngestIdle /\ TransportInit /\ BitVectorIdle /\ AclIdle
  /\ EquivIdle /\ ArraysIdle /\ NoChannel

NextTransport ==
  \/ GrpcConnect /\ UNCHANGED exceptTransport
  \/ \E ok \in BOOLEAN : GrpcHealthSettles(ok) /\ UNCHANGED exceptTransport
  \/ GrpcDisconnect /\ UNCHANGED exceptTransport
  \/ GrpcInsert /\ UNCHANGED exceptTransport
  \/ GrpcGetUser /\ UNCHANGED exceptTransport
  \/ GrpcListUsers /\ UNCHANGED exceptTransport
  \/ GrpcSampleGraph /\ UNCHANGED exceptTransport
  \/ HttpConnect /\ UNCHANGED exceptTransport
  \/ \E out \in {"true", "false", "reject"} :
       HttpHealthSettles(out) /\ UNCHANGED exceptTransport
  \/ HttpDisconnect /\ UNCHANGED exceptTransport
  \/ HttpInsert /\ UNCHANGED exceptTransport
  \/ \E status \in Statuses : \E success \in BOOLEAN :
       \E message \in {"", "m"} :
         HttpInsertSettles(status, success, message)
           /\ UNCHANGED exceptTransport
  \/ HttpSubscribe /\ UNCHANGED exceptTransport
  \/ HttpSubscribeNext /\ UNCHANGED exceptTransport
  \/ HttpWatchMemory /\ UNCHANGED exceptTransport
  \/ HttpWatchMemoryNext /\ UNCHANGED exceptTransport

SpecTransport == InitTransport /\ [][NextTransport]_vars

\* A GrpcClient whose permission operations are called, connected or not.
NextPermission ==
  \/ GrpcConnect /\ UNCHANGED exceptTransport
  \/ \E ok \in BOOLEAN : GrpcHealthSettles(ok) /\ UNCHANGED exceptTransport
  \/ GrpcDisconnect /\ UNCHANGED exceptTransport
  \/ \E node \in Nodes : \E user \in Users :
       \E perms \in (SUBSET PermissionTypes) \ {{}} : \E done \in BOOLEAN :
         GrpcGrantPermission(node, user, perms, done)
           /\ UNCHANGED exceptTransport
  \/ \E node \in Nodes : \E user \in Users : \E done \in BOOLEAN :
       GrpcRevokePermission(node, user, done) /\ UNCHANGED exceptTransport
  \/ \E node \in Nodes : \E user \in Users : \E pt \in PermissionTypes :
       GrpcCheckPermission(node, user, pt) /\ UNCHANGED exceptTransport

SpecPermission == InitTransport /\ [][NextPermission]_vars

InitBitVector ==
  /\ ClientIdle /\ IngestIdle /\ TransportIdle /\ BitVectorInit /\ AclIdle
  /\ EquivIdle /\ ArraysIdle /\ NoChannel

InitArrays ==
  /\ ClientIdle /\ IngestIdle /\ TransportIdle /\ BitVectorIdle /\ AclIdle
  /\ EquivIdle /\ ArraysInit /\ NoChannel

NextArrays ==
  \/ \E list \in {ZeroVec, OneVec} : NewVectorFromList(list)
       /\ UNCHANGED exceptArrays
  \/ NewVectorDefault /\ UNCHANGED exceptArrays
  \/ ToList /\ UNCHANGED exceptArrays
  \/ \E ref \in CallerRefs : \E i \in WriteIndexes : \E v \in WriteValues :
       SetElement(ref, i, v) /\ UNCHANGED exceptArrays
  \/ \E ref \in CallerRefs : \E v \in WriteValues :
       Push(ref, v) /\ UNCHANGED exceptArrays
  \/ \E ref \in CallerRefs : Pop(ref) /\ UNCHANGED exceptArrays
  \/ DistanceToSelf /\ UNCHANGED exceptArrays

SpecArrays == InitArrays /\ [][NextArrays]_vars

NextBitVector ==
  \/ \E slot \in {"a", "b"} : NewDefault(slot) /\ UNCHANGED exceptBitVector
  \/ \E slot \in {"a", "b"} : \E list \in InputLists :
       NewFromList(slot, list) /\ UNCHANGED exceptBitVector
  \/ \E slot \in {"a", "b"} : Random(slot) /\ UNCHANGED exceptBitVector
  \/ \E p \in FlipPositions : FlipBit(p) /\ UNCHANGED exceptBitVector
  \/ Distances /\ UNCHANGED exceptBitVector
  \/ DistanceFlipped /\ UNCHANGED exceptBitVector

SpecBitVector == InitBitVector /\ [][NextBitVector]_vars

InitAcl ==
  /\ ClientIdle /\ IngestIdle /\ TransportIdle /\ BitVectorIdle /\ AclInit
  /\ EquivIdle /\ ArraysIdle /\ NoChannel

NextAcl ==
  \/ BatchGrantStart /\ UNCHANGED exceptAcl
  \/ GrantCall /\ UNCHANGED exceptAcl
  \/ \E ans \in Answers : GrantSettles(ans) /\ UNCHANGED exceptAcl
  \/ BatchGrantReturn /\ UNCHANGED exceptAcl
  \/ InsertWithAclStart /\ UNCHANGED exceptAcl
  \/ \E ans \in Answers : InsertSettles(ans) /\ UNCHANGED exceptAcl

SpecAcl == InitAcl /\ [][NextAcl]_vars

InitEquiv ==
  /\ ClientIdle /\ IngestIdle /\ TransportIdle /\ BitVectorIdle /\ AclIdle
  /\ EquivInit /\ ArraysIdle /\ NoChannel

NextEquiv ==
  \/ \E op \in {"insert", "search", "delete"} : \E ans \in AnswersTo(op) :
       CallBoth(op, ans) /\ UNCHANGED exceptEquiv
  \/ GrpcCallSettles /\ UNCHANGED exceptEquiv
  \/ HttpCallSettles /\ UNCHANGED exceptEquiv

SpecEquiv == InitEquiv /\ [][NextEquiv]_vars

-----
\* Properties of RiceDBClient, checked under Spec.

\* C1: in automatic mode, when the gRPC connect failed and the HTTP connect
\* resolved true, connect() has resolved, the gRPC failure is never what the
\* caller of connect() gets, the client holds the HTTP transport (until a
\* disconnect) and every call made on a transport since was made on the HTTP
\* one.
C1_AutoFallback ==
  /\ (transport = "auto" => connResult # GrpcConnectError)
  /\ (transport = "auto" /\ fellBack /\ connPc = "idle" /\ httpOut = "true"
        => /\ connResult = "resolved"
           /\ client \in {"http", NULL}
           /\ (nCalls > 0 => lastCall.to = "http"))

C1_Witness ==
  /\ transport = "auto" /\ fellBack /\ connPc = "idle" /\ httpOut = "true"
  /\ connResult = "resolved" /\ connected /\ client = "http"
  /\ nCalls > 0 /\ lastCall.to = "http" /\ lastCall.op = "search"

ScopedOps == {"insert", "search", "deleteRun"}

\* C2 as stated: the run scope handed to the transport by insert, search and
\* deleteRun is the per-call argument whenever one is given, else the default
\* scope of the client at the time of the call, else absent.
C2_GivenArgumentWins ==
  lastCall.op \in ScopedOps =>
    lastCall.runId = IF lastCall.arg # Undefined THEN lastCall.arg
                     ELSE lastCall.dflt

\* C2, amended: the run scope handed to the transport by insert, search and
\* deleteRun is the per-call argument when one is given and is not the empty
\* string, and otherwise the default scope of the client at the time of the
\* call (absent when the client has none).
C2_NonEmptyArgumentWins ==
  lastCall.op \in ScopedOps =>
    lastCall.runId = IF lastCall.arg \notin {Undefined, ""} THEN lastCall.arg
                     ELSE lastCall.dflt

C2_Witness ==
  /\ lastCall.op = "insert" /\ lastCall.arg = "run-b"
  /\ lastCall.dflt = "run-a" /\ lastCall.runId = "run-b"
  /\ nCalls = 2

C28_ResolvesOnlyOnSuccess ==
  /\ [](connPc = "idle" /\ connResult = "resolved" /\ httpOut # "none"
          => httpOut = "true")
  /\ [][(connPc = "awaitHttp" /\ connPc' = "idle" /\ httpOut' = "false")
          => (connResult' # "resolved" /\ (connected' => connected))]_vars

-----------------------------------------------------------------------------
\* Properties of RiceDBClient, checked under SpecLifecycle.

\* A data operation of RiceDBClient is called.
DataOp ==
  \/ Insert(Undefined) \/ Search(Undefined) \/ Delete \/ DeleteRun(Undefined)
  \/ \E op \in ForwardedOps : Forward(op)

\* The operation threw "Not connected" and made no call on a transport.
FailsNotConnected ==
  /\ lastResult'.kind = "throw"
  /\ lastResult'.msg = NotConnectedMsg
  /\ nCalls' = nCalls
  /\ lastCall' = lastCall

\* C26 as stated: while no connect() has resolved since the client was made
\* or last disconnected (the connected flag is false), every data operation
\* throws "Not connected" and calls no transport; disconnect(), in any state,
\* leaves the client without transport and not connected.
C26_NotConnectedUntilConnect ==
  /\ [][(~connected /\ DataOp) => FailsNotConnected]_vars
  /\ [][DisconnectCloses => (client' = NULL /\ ~connected')]_vars

ConnectErrors == {GrpcConnectError, HttpConnectError}

\* C27 as stated: once connect() has rejected, the client holds no transport
\* and every data operation throws "Not connected", until connect() is called
\* again.
C27_RejectedConnectLeavesNoTransport ==
  /\ [](connPc = "idle" /\ connResult \in ConnectErrors => client = NULL)
  /\ [][(connPc = "idle" /\ connResult \in ConnectErrors /\ DataOp)
          => FailsNotConnected]_vars

\* C29 as stated: when no connect() is pending, at most one channel opened
\* for the client is open, and none but that of the GrpcClient it holds: the
\* channel of a GrpcClient that was dropped or replaced is closed.
C29_AtMostOneChannel ==
  connPc = "idle" => (channels <= 1 /\ (client # "grpc" => channels = 0))

-----------------------------------------------------------------------------
\* Properties of fastIngest, checked under SpecIngest.

\* Document d is in a chunk still in the queue.
InQueue(d) ==
  \E c \in 1..Len(queue) : \E x \in 1..Len(queue[c]) : queue[c][x] = d

Awaiting == {w \in DOMAIN wpc : wpc[w] = "await"}

\* The counts of the calls that resolved and whose processChunk has not yet
\* resumed, and the number of calls that rejected and are in that position.
RECURSIVE PendingCount(_)
PendingCount(w) ==
  IF w = 0 THEN 0
  ELSE PendingCount(w - 1)
       + (IF wpc[w] = "settled" /\ wres[w].ok THEN wres[w].count ELSE 0)

RECURSIVE PendingFailures(_)
PendingFailures(w) ==
  IF w = 0 THEN 0
  ELSE PendingFailures(w - 1)
       + (IF wpc[w] = "settled" /\ ~wres[w].ok THEN 1 ELSE 0)

\* C4: when fastIngest has resolved, totalInserted is the sum of the counts
\* of the batchInsert calls that resolved and failedBatches is the number of
\* calls that rejected; while it runs, the two differ from those sums only by
\* the calls that settled and whose worker has not resumed yet.
C4_TotalsAddUp ==
  /\ totalInserted + PendingCount(Len(wpc)) = sumCounts
  /\ failedBatches + PendingFailures(Len(wpc)) = nRejected
  /\ (fiPc = "resolved"
        => totalInserted = sumCounts /\ failedBatches = nRejected)

C4_Witness ==
  /\ fiPc = "resolved" /\ Len(wpc) = 2
  /\ nOk = 3 /\ nRejected = 1 /\ failedBatches = 1
  /\ totalInserted = 3 /\ sumCounts = 3

\* C5 as stated: whenever fastIngest has resolved, every chunk was passed to
\* batchInsert: the calls that resolved and failedBatches add up to the
\* number of chunks, and every document was in a call.
C5_NoDocumentDropped ==
  fiPc = "resolved"
    => /\ nOk + failedBatches = Len(chunks)
       /\ \A d \in DOMAIN passed : passed[d] >= 1

\* C6: the queue is dequeued exclusively: a document is either in a chunk
\* still queued and was in no batchInsert call, or was in exactly one call;
\* the chunks in flight are chunks of the list, different for different
\* workers; and a worker leaves its loop only when the queue is empty.
C6_ExclusiveDequeue ==
  fiPc \in {"running", "resolved"}
    => /\ \A d \in DOMAIN passed : passed[d] = IF InQueue(d) THEN 0 ELSE 1
       /\ \A w \in DOMAIN wpc : \E c \in DOMAIN chunks : wchunk[w] = chunks[c]
       /\ \A v, w \in Awaiting : v # w => wchunk[v] # wchunk[w]
       /\ ((\E w \in DOMAIN wpc : wpc[w] = "done") => queue = <<>>)

C6_Witness ==
  /\ fiPc = "running" /\ Len(chunks) = 4 /\ Len(wpc) = 2
  /\ wpc[1] = "done" /\ wpc[2] = "await" /\ wchunk[2] = chunks[4]
  /\ wchunk[1] = chunks[3]

\* C7: the number of batchInsert calls in flight never exceeds concurrency
\* nor the number of chunks, there are at most concurrency workers, and the
\* calls in flight are one for each worker suspended in its call.
C7_BoundedInFlight ==
  /\ inflight <= concurrency
  /\ (fiPc # "chunking" => inflight <= Len(chunks))
  /\ Len(wpc) <= concurrency
  /\ inflight = Cardinality(Awaiting)

C7_Witness ==
  /\ fiPc = "running" /\ concurrency = 2 /\ inflight = 2
  /\ Len(chunks) = 4 /\ Len(queue) = 1 /\ nOk + nRejected = 1

\* C8: fastIngest never rejects and no worker ends in an error; whenever
\* nothing more can happen fastIngest has resolved; and when it resolved
\* although batches failed, every document was in exactly one call.
C8_BatchFailureContained ==
  /\ fiPc # "rejected"
  /\ \A w \in DOMAIN wpc : wpc[w] # "threw"
  /\ (~ENABLED NextIngest => fiPc = "resolved")
  /\ (fiPc = "resolved" /\ nRejected > 0
        => \A d \in DOMAIN passed : passed[d] = 1)

C8_Witness ==
  /\ fiPc = "resolved" /\ Len(wpc) = 1 /\ Len(chunks) = 3
  /\ errors = <<1>> /\ failedBatches = 1 /\ nOk = 2

\* The chunks one after the other.
RECURSIVE Concat(_)
Concat(cs) == IF cs = <<>> THEN <<>> ELSE Head(cs) \o Concat(Tail(cs))

\* C25: once the chunking loop is over, the list of n documents is cut into
\* ceil(n / batchSize) chunks which, one after the other, are the list itself
\* (contiguous, in order, every document in exactly one chunk); every chunk
\* but the last has batchSize documents and the last has between 1 and
\* batchSize; an empty list gives no chunk and no batchInsert call is made.
C25_ContiguousChunks ==
  /\ (fiPc = "chunking" =>
        /\ Concat(chunks) = SubSeq(documents, 1, Min(chunkI, Len(documents)))
        /\ inflight + nOk + nRejected = 0)
  /\ (fiPc # "chunking" =>
        /\ Len(chunks) = (Len(documents) + batchSize - 1) \div batchSize
        /\ Concat(chunks) = documents
        /\ \A c \in 1..Len(chunks) :
             /\ c < Len(chunks) => Len(chunks[c]) = batchSize
             /\ Len(chunks[c]) \in 1..batchSize
        /\ (documents = <<>> =>
              chunks = <<>> /\ inflight + nOk + nRejected = 0))

\* Three documents were cut into chunks of two and one, and all were passed to
\* batchInsert.
C25_Witness ==
  /\ fiPc = "resolved"
  /\ batchSize = 2
  /\ chunks = << <<1, 2>>, <<3>> >>
  /\ nOk + nRejected = 2

\* Checked under SpecIngestLive.
\* C30 as stated: for every document list, batchSize and concurrency, every
\* batchInsert call settling, fastIngest eventually resolves or rejects.
C30_Terminates == <>(fiPc \in {"resolved", "rejected"})

\* Checked under SpecIngestMany.
\* C23: the list of captured error messages never holds more than 10
\* entries; its length is min(failedBatches, 10), it holds the messages of the
\* first failures in the order they were caught, and failedBatches counts
\* every failure, those beyond the tenth included.
C23_ErrorsCapped ==
  /\ Len(errors) <= 10
  /\ Len(errors) = Min(failedBatches, 10)
  /\ errors = SubSeq(failures, 1, Len(errors))
  /\ failedBatches = Len(failures)
  /\ (fiPc = "resolved" => failedBatches = nRejected)

\* fastIngest resolved after all of its eleven batches failed.
C23_Witness ==
  /\ fiPc = "resolved"
  /\ failedBatches = 11
  /\ errors = [k \in 1..10 |-> k]

-----------------------------------------------------------------------------
\* Properties of the transports, checked under SpecTransport.

\* C9 as stated: on the HTTP transport the call of subscribe or watchMemory
\* itself throws the unsupported-operation error.
C9_ThrowsAtTheCall ==
  tResult.op \in {"http.subscribe", "http.watchMemory"}
    => /\ tResult.kind = "throw"
       /\ tResult.msg \in {SubscribeUnsupportedMsg, WatchMemoryUnsupportedMsg}

\* C9, amended: on the HTTP transport the call of subscribe or watchMemory
\* returns a stream and makes no request; the first next() on that stream
\* throws the operation's unsupported-operation error, and makes no request
\* either.
C9_ThrowsAtFirstNext ==
  [][ /\ (HttpSubscribe \/ HttpWatchMemory
            => tResult'.kind = "return" /\ httpRequests' = httpRequests)
      /\ (subGen = "suspendedStart" /\ HttpSubscribeNext
            => /\ tResult' = [op |-> "http.subscribe.next", kind |-> "throw",
                              msg |-> SubscribeUnsupportedMsg]
               /\ httpRequests' = httpRequests)
      /\ (watchGen = "suspendedStart" /\ HttpWatchMemoryNext
            => /\ tResult' = [op |-> "http.watchMemory.next",
                              kind |-> "throw",
                              msg |-> WatchMemoryUnsupportedMsg]
               /\ httpRequests' = httpRequests) ]_vars

C9_Witness ==
  /\ tResult = [op |-> "http.subscribe.next", kind |-> "throw",
                msg |-> SubscribeUnsupportedMsg]
  /\ subGen = "completed" /\ httpRequests = 0 /\ hConnected = FALSE

GrpcUnsupportedMsgs ==
  {GetUserUnsupportedMsg, ListUsersUnsupportedMsg, SampleGraphUnsupportedMsg}

\* C10: on the gRPC transport getUser, listUsers and sampleGraph throw their
\* own not-supported error, which is not the "Not connected" error, whether
\* or not a ProtoClient is held, and make no call on the ProtoClient.
C10_GrpcUnsupported ==
  [][ /\ (GrpcGetUser
            => tResult' = [op |-> "grpc.getUser", kind |-> "throw",
                           msg |-> GetUserUnsupportedMsg])
      /\ (GrpcListUsers
            => tResult' = [op |-> "grpc.listUsers", kind |-> "throw",
                           msg |-> ListUsersUnsupportedMsg])
      /\ (GrpcSampleGraph
            => tResult' = [op |-> "grpc.sampleGraph", kind |-> "throw",
                           msg |-> SampleGraphUnsupportedMsg])
      /\ (GrpcGetUser \/ GrpcListUsers \/ GrpcSampleGraph
            => /\ rpcCalls' = rpcCalls
               /\ tResult'.msg \notin {NotConnectedMsg, GrpcConnectError}) ]_vars

C10_Witness ==
  /\ gChan = NULL /\ gConnected = FALSE /\ rpcCalls = 0
  /\ tResult = [op |-> "grpc.sampleGraph", kind |-> "throw",
                msg |-> SampleGraphUnsupportedMsg]

\* Checked under SpecPermission.
\* C22: on the gRPC transport checkPermission resolves false for every node,
\* user and permission type, whether or not a ProtoClient is held or the
\* client is connected, whatever permissions the remote service holds after
\* the grants and revocations made before, and makes no call on the
\* ProtoClient.
C22_CheckPermissionAlwaysFalse ==
  [][ \A node \in Nodes, user \in Users, pt \in PermissionTypes :
        GrpcCheckPermission(node, user, pt)
          => /\ tResult' = [op |-> "grpc.checkPermission", kind |-> "resolve",
                            msg |-> "false"]
             /\ rpcCalls' = rpcCalls
             /\ granted' = granted ]_vars

\* checkPermission resolved on a connected client for a permission that the
\* remote service holds after a grant.
C22_Witness ==
  /\ tResult = [op |-> "grpc.checkPermission", kind |-> "resolve",
                msg |-> "false"]
  /\ gChan # NULL /\ gConnected
  /\ <<"n2", "u1", "write">> \in granted
  /\ rpcCalls = 2

\* The messages of the errors raised for each of the three causes.
UnsupportedMsgs ==
  GrpcUnsupportedMsgs \cup {SubscribeUnsupportedMsg, WatchMemoryUnsupportedMsg}
RemoteFailureMsgs ==
  {RequestFailedMsg(status) : status \in {st \in Statuses : st >= 400}}
    \cup {InsertFailedMsg, "m"}
InvalidInputMsgs == {RunIdRequiredMsg, ChunkCountMsg, InsertWithAclEmptyMsg}

\* C21 as stated: an error raised for an unsupported operation is an
\* UnsupportedOperationError, one raised for a non-success response of the
\* remote service is a RemoteError, and one raised for invalid input (deleteRun
\* without run scope, a chunk list of the wrong length, insertWithAcl without
\* users) is a ValidationError, so that the kind tells the causes apart.
C21_KindTellsCause ==
  /\ (tResult.kind = "throw" /\ tResult.msg \in UnsupportedMsgs
        => tError.name = "UnsupportedOperationError")
  /\ (tResult.kind = "throw" /\ tResult.msg \in RemoteFailureMsgs
        => tError.name = "RemoteError")
  /\ \A msg \in InvalidInputMsgs : NewError(msg).name = "ValidationError"

-----------------------------------------------------------------------------
\* Properties of BitVector, checked under SpecBitVector.

\* The vector a construction assigned to.
SlotVector(slot) ==
  IF slot = "a" THEN bvA ELSE IF slot = "b" THEN bvB ELSE bvC

Bit(n, k) == (n \div (2 ^ k)) % 2

\* The four 16-bit parts of a chunk.
PartsOf(c) == <<c.low[2], c.low[1], c.high[2], c.high[1]>>

\* The number of the 1024 bit positions in which two chunk lists differ.
BitsDiffering(x, y) ==
  Cardinality({pos \in (1 .. 16) \X (1 .. 4) \X (0 .. 15) :
                 Bit(PartsOf(x[pos[1]])[pos[2]], pos[3])
                   # Bit(PartsOf(y[pos[1]])[pos[2]], pos[3])})

\* C12: a computed distance is the number of bit positions, out of 1024, in
\* which the two vectors differ, also when a 32-bit half of a chunk has its
\* top bit set.
C12_CountsDifferingBits ==
  /\ bvDist # NoDistance => bvDist = BitsDiffering(bvA.chunks, bvB.chunks)
  /\ bvDistC # NoDistance => bvDistC = BitsDiffering(bvC.chunks, bvB.chunks)

\* The zero vector against a vector with one chunk equal to 1: distance 1.
C12_Witness ==
  /\ bvA.exists /\ bvB.exists
  /\ \A i \in 1 .. 16 : bvA.chunks[i] = MkLong(<<0, 0>>, <<0, 0>>)
  /\ \E i \in 1 .. 16 :
       /\ bvB.chunks[i] = MkLong(<<0, 1>>, <<0, 0>>)
       /\ \A j \in (1 .. 16) \ {i} : bvB.chunks[j] = MkLong(<<0, 0>>, <<0, 0>>)
  /\ bvDist = 1

\* C13: the distance from a vector to one of the same chunks is 0.
C13_SelfDistanceZero ==
  (bvDist # NoDistance /\ bvA.chunks = bvB.chunks)
    => (bvDist = 0 /\ bvDistRev = 0)

\* A vector with bits set, negative halves among them, compared with itself.
C13_Witness ==
  /\ bvA.exists /\ bvA.chunks = bvB.chunks
  /\ \E i \in 1 .. 16 : bvA.chunks[i].high[1] >= 32768
  /\ bvDist = 0

\* C14: a.hammingDistance(b) equals b.hammingDistance(a).
C14_Symmetric == bvDist # NoDistance => bvDist = bvDistRev

\* Two different vectors were compared in both directions.
C14_Witness ==
  /\ bvA.exists /\ bvB.exists /\ bvA.chunks # bvB.chunks
  /\ bvDist > 0 /\ bvDistRev = bvDist

\* What each 32-bit half of each chunk adds to the distance of x and y.
HalfCounts(x, y) ==
  {PopCount32(ChunkDiff(x[i], y[i]).low) : i \in 1 .. 16}
    \cup {PopCount32(ChunkDiff(x[i], y[i]).high) : i \in 1 .. 16}

\* C15: a computed distance lies in 0 .. 1024, and each 32-bit half adds a
\* value in 0 .. 32, also when the half is negative as a signed integer.
C15_InRange ==
  /\ bvDist # NoDistance =>
       /\ bvDist \in 0 .. 1024
       /\ bvDistRev \in 0 .. 1024
       /\ HalfCounts(bvA.chunks, bvB.chunks) \subseteq 0 .. 32
  /\ bvDistC # NoDistance =>
       /\ bvDistC \in 0 .. 1024
       /\ HalfCounts(bvC.chunks, bvB.chunks) \subseteq 0 .. 32

\* Every half of every chunk differs in all its bits: the distance is 1024.
C15_Witness ==
  /\ bvA.exists /\ bvB.exists
  /\ \A i \in 1 .. 16 :
       ChunkDiff(bvA.chunks[i], bvB.chunks[i])
         = MkLong(<<65535, 65535>>, <<65535, 65535>>)
  /\ bvDist = 1024

\* C16: inverting one bit of a changes its distance to b by exactly 1, up or
\* down.
C16_OneBitOneStep ==
  bvDistC # NoDistance => (bvDistC = bvDist + 1 \/ bvDistC = bvDist - 1)

\* A bit was inverted and the distance went down by one.
C16_Witness ==
  /\ bvC.exists /\ bvDistC # NoDistance
  /\ BitsDiffering(bvA.chunks, bvC.chunks) = 1
  /\ bvDistC = bvDist - 1

\* Checked under SpecArrays.
\* C24 as stated: once a vector is constructed, its chunks and their number
\* stay what they were when the constructor returned, whatever the caller
\* does with the list it passed, with toList() and the list it returns, and
\* with hammingDistance.
C24_Immutable ==
  vecRef # NoRef => heap[vecRef] = vecMade

-----------------------------------------------------------------------------
\* Properties of batchGrant and insertWithAcl, checked under SpecAcl.

\* How many entries of a list of results or errors carry the index k.
CountIndex(list, k) == Cardinality({j \in DOMAIN list : list[j].index = k})

\* C18: batchGrant makes one grantPermission call per listed grant, one after
\* the other and in list order; a failing grant does not make batchGrant
\* raise and does not keep the later grants from being tried; the summary has
\* total = number of grants and successful + failed = total, and every index
\* is in exactly one of results and errors.
C18_BatchGrantItemised ==
  /\ grantCalls = SubSeq(grants, 1, Len(grantCalls))
  /\ Len(grantCalls) = Len(bgResults) + Len(bgErrors)
                         + (IF aclPc = "awaitGrant" THEN 1 ELSE 0)
  /\ aclOp = "batchGrant" => aclPc # "rejected"
  /\ (aclOp = "batchGrant" /\ ~ENABLED NextAcl) => grantRes.done
  /\ grantRes.done =>
       /\ Len(grantCalls) = Len(grants)
       /\ grantRes.total = Len(grants)
       /\ grantRes.successful = Len(bgResults)
       /\ grantRes.failed = Len(bgErrors)
       /\ grantRes.successful + grantRes.failed = grantRes.total
       /\ \A k \in 0 .. Len(grants) - 1 :
            CountIndex(bgResults, k) + CountIndex(bgErrors, k) = 1

\* batchGrant returned after its first grant failed and a later one succeeded.
C18_Witness ==
  /\ aclOp = "batchGrant"
  /\ grantRes.done
  /\ grantRes.total = MaxGrants
  /\ CountIndex(bgErrors, 0) = 1
  /\ CountIndex(bgResults, MaxGrants - 1) = 1

\* C19: insertWithAcl makes exactly one insert, owned by the first listed
\* user; grants are issued only after that insert has succeeded, one per
\* remaining user and none for the first; when the insert does not succeed no
\* grant is issued; the result carries the grant results whenever there is at
\* least one additional user.
C19_GrantsOnlyAfterInsertSucceeded ==
  (aclOp = "insertWithAcl" /\ Len(aclArg) > 0) =>
    /\ Len(insertCalls) <= 1
    /\ \A j \in DOMAIN insertCalls : insertCalls[j] = aclArg[1]
    /\ Len(grantCalls) > 0 => (insertRes.done /\ insertRes.success)
    /\ grantCalls = SubSeq(Tail(aclArg), 1, Len(grantCalls))
    /\ aclRes.done =>
         /\ Len(insertCalls) = 1
         /\ Len(aclArg) > 1 =>
              (aclRes.aclGrants /\ Len(grantCalls) = Len(aclArg) - 1)

-----------------------------------------------------------------------------
\* Properties of the two transports side by side, checked under SpecEquiv.

\* Both calls resolved with the same value, or both were rejected.
SameOutcome(g, h) ==
  /\ g.kind = h.kind
  /\ g.kind = "resolve" => g.value = h.value

\* C20: for every operation both transports support and every answer of the
\* remote service, the call on the binary transport and the call on the text
\* transport give their caller the same outcome, also when the service
\* answers insert or delete with success = false.
C20_SameOutcome ==
  (eqGrpc.kind \in {"resolve", "reject"} /\ eqHttp.kind \in {"resolve", "reject"})
    => SameOutcome(eqGrpc, eqHttp)

====
